---------------------------- MODULE Spec2Model ----------------------------
(***************************************************************************)
(* A model of the news backend: the near-duplicate filter of               *)
(* NoDuplicates.py, the parse / deduplicate / LLM / store pipeline of      *)
(* app/api/routes/parsers.py, the tag scores and the news feed of          *)
(* app/api/routes/users.py and news.py, and registration, profile update   *)
(* and login of app/api/routes/auth.py, the authentication dependencies of *)
(* app/api/deps.py, the brokerage sandbox proxy of                         *)
(* app/api/routes/invest.py and the tag classes of                         *)
(* app/api/routes/recommendations.py.                                      *)
(*                                                                         *)
(* Python strings are sequences of one-character strings, so that slicing, *)
(* splitting, stripping and substring search are computed, not assumed.    *)
(* Python list positions are 0-based; the model's are 1-based.             *)
(***************************************************************************)
EXTENDS Integers, Sequences, FiniteSets, TLC

VARIABLES
    \* ---- NoDuplicates.deduplicate_news_with_annoy (one call) ----
    articles,            \* the input list
    embeddings,          \* model.encode(texts): one vector per article
    threshold,           \* similarity threshold, in tenths
    duplicate_indices,   \* the seen-set of the pass
    dedup_i,             \* the loop variable i of the pass
    dedup_pc,            \* "start" | "loop" | "done"
    cleaned_articles,    \* the returned list
    \* ---- the database tables raw_news and news_articles ----
    raw_news,            \* rows of RawNews, in id order
    news_articles,       \* rows of NewsArticle, in id order
    \* ---- one run of run_all_parsers_and_process ----
    pipe_pc,             \* "idle" | "parser" | "items" | "dedup" | "llm"
    parser_idx,          \* position in PARSERS_REGISTRY of the current parser
    unique_news,         \* the list unique_news
    total_parsed,        \* the counter total_parsed
    total_skipped,       \* the counter total_skipped
    deduplicated_news,   \* the list deduplicated_news
    llm_idx,             \* position in deduplicated_news of the next item
    runs,                \* runs started so far
    parsed_count,        \* items the parsers have returned so far, over all runs
    \* history of the current run (not program state)
    raw_at_start,        \* Len(raw_news) when the run started
    passed_check,        \* items check_duplicate_in_raw_news answered False for
    ml_returned,         \* what deduplicate_news_with_annoy returned, if it has
    last_llm,            \* the latest iteration of the LLM loop: position, outcome, saved
    db_errors,           \* database calls that have failed so far
    \* ---- the API: the users table and the requests ----
    users,               \* rows of User, in creation order
    sent,                \* history: per user and tag column, likes minus dislikes
                         \* sent for articles whose tags hold the tag as an entry
    response,            \* the latest response the API sent
    requests,            \* the /register and PUT /me requests in flight
    \* ---- the endpoints behind the dependencies, and the brokerage ----
    handled,             \* history: the handler bodies run for the latest request
    sandbox,             \* the brokerage sandbox behind an invest_token
    calls                \* history: the brokerage API calls of the latest request

dedupVars == <<articles, embeddings, threshold, duplicate_indices, dedup_i,
               dedup_pc, cleaned_articles>>

tableVars == <<raw_news, news_articles>>

pipeVars == <<pipe_pc, parser_idx, unique_news, total_parsed, total_skipped,
              deduplicated_news, llm_idx, runs, parsed_count, raw_at_start,
              passed_check, ml_returned, last_llm, db_errors>>

apiVars == <<users, sent, response, requests>>

proxyVars == <<handled, sandbox, calls>>

vars == <<dedupVars, tableVars, pipeVars, apiVars, proxyVars>>

\* What the steps of one subsystem leave alone.
notDedup == <<tableVars, pipeVars, apiVars, proxyVars>>
notPipe == <<dedupVars, apiVars, proxyVars>>
notNews == <<dedupVars, raw_news, pipeVars, requests, proxyVars>>

Min(a, b) == IF a < b THEN a ELSE b

Range(s) == {s[k] : k \in DOMAIN s}

\* [c] * n
Rep(c, n) == [k \in 1..n |-> c]

(***************************************************************************)
(* Python strings and SQL columns                                          *)
(***************************************************************************)

\* SQL NULL / Python None in a place that otherwise holds a string.
NULL == <<"NULL">>

\* "if s": a string is truthy when it is neither None nor empty.
Truthy(s) == s # NULL /\ Len(s) > 0

\* s[:n]
Slice(s, n) == SubSeq(s, 1, Min(n, Len(s)))

\* s.strip(), for the blank
RECURSIVE LStrip(_)
LStrip(s) == IF Len(s) > 0 /\ Head(s) = " " THEN LStrip(Tail(s)) ELSE s

RECURSIVE RStrip(_)
RStrip(s) ==
    IF Len(s) > 0 /\ s[Len(s)] = " " THEN RStrip(SubSeq(s, 1, Len(s) - 1)) ELSE s

Strip(s) == RStrip(LStrip(s))

\* s.split(','): never empty, ''.split(',') is ['']
RECURSIVE Split(_)
Split(s) ==
    IF \A k \in DOMAIN s : s[k] # ","
    THEN <<s>>
    ELSE LET c == CHOOSE k \in DOMAIN s : s[k] = "," /\ \A m \in 1..(k - 1) : s[m] # ","
         IN  <<SubSeq(s, 1, c - 1)>> \o Split(SubSeq(s, c + 1, Len(s)))

\* sep.join(parts)
RECURSIVE Join(_, _)
Join(parts, sep) ==
    IF Len(parts) = 0 THEN <<>>
    ELSE IF Len(parts) = 1 THEN parts[1]
    ELSE parts[1] \o sep \o Join(Tail(parts), sep)

\* column.contains(sub): SQL "column LIKE '%sub%'", never true of a NULL column
Contains(column, sub) ==
    /\ column # NULL
    /\ \E k \in 0..(Len(column) - Len(sub)) : \A m \in DOMAIN sub : column[k + m] = sub[m]

(***************************************************************************)
(* app/core/constants.py                                                   *)
(*                                                                         *)
(* The fourteen tag names are written in short: two letters, or two words  *)
(* of one letter for the three names that hold a blank. As with the real   *)
(* names, none is part of another.                                         *)
(***************************************************************************)
TAG_MAP ==
    [ tag_energy          |-> <<"e", "n">>,
      tag_finance         |-> <<"f", "i">>,
      tag_tech            |-> <<"t", "e">>,
      tag_industry        |-> <<"i", "d">>,
      tag_consumer_sector |-> <<"c", " ", "s">>,
      tag_infrastructure  |-> <<"i", "f">>,
      tag_agriculture     |-> <<"a", " ", "h">>,
      tag_healthcare      |-> <<"h", "e">>,
      tag_real_estate     |-> <<"r", "e">>,
      tag_materials       |-> <<"m", "a">>,
      tag_telecom         |-> <<"t", "l">>,
      tag_entertainment   |-> <<"e", "t">>,
      tag_education       |-> <<"e", "d">>,
      tag_ecommerce       |-> <<"e", " ", "c">> ]

TagFields == DOMAIN TAG_MAP

TagNames == {TAG_MAP[f] : f \in TagFields}

\* {v: k for k, v in TAG_MAP.items()}
FIELD_MAP == [name \in TagNames |-> CHOOSE f \in TagFields : TAG_MAP[f] = name]

(***************************************************************************)
(* NoDuplicates.py                                                         *)
(***************************************************************************)

\* Bound: the longest input list of one deduplicate_news_with_annoy call.
MaxArticles == 6

\* get_nns_by_item(i, 5, ...): the number of neighbours asked for.
NNS_K == 5

\* threshold: float = 0.7, in tenths.
DEFAULT_THRESHOLD == 7

\* The points the encoder can map a text to: three unit vectors on an arc.
EmbeddingSpace == 1..3

\* util.cos_sim of two vectors, in tenths: 1.0 for equal vectors, 0.8 for
\* neighbouring points, 0.7 (exactly the default threshold) for the two ends.
cos_sim(u, v) ==
    LET d == IF u < v THEN v - u ELSE u - v
    IN  CASE d = 0 -> 10
          [] d = 1 -> 8
          [] OTHER -> 7

\* The text that is vectorized: f"{article['title']}. {article['full_text']}"
texts_to_vectorize(article) == article.title \o <<".", " ">> \o article.full_text

\* model.encode is a deterministic function of the text: every assignment of
\* vectors that gives equal texts equal vectors.
Encodings(arts) ==
    LET texts == {texts_to_vectorize(arts[k]) : k \in DOMAIN arts}
    IN  {[k \in DOMAIN arts |-> enc[texts_to_vectorize(arts[k])]] :
            enc \in [texts -> EmbeddingSpace]}

\* Annoy orders the candidates by the pair (angular distance, item id): a
\* smaller distance is a larger cosine, and equal distances go by item id.
\* The index is exact for lists this short (one leaf holds every item).
AnnoyBefore(emb, i, a, b) ==
    \/ cos_sim(emb[i], emb[a]) > cos_sim(emb[i], emb[b])
    \/ cos_sim(emb[i], emb[a]) = cos_sim(emb[i], emb[b]) /\ a < b

\* annoy_index.get_nns_by_item(i, 5): the first 5 items in Annoy's order.
get_nns_by_item(emb, i, n) ==
    LET N    == Len(emb)
        rank == [j \in 1..N |-> 1 + Cardinality({a \in 1..N : AnnoyBefore(emb, i, a, j)})]
    IN  [p \in 1..Min(n, N) |-> CHOOSE j \in 1..N : rank[j] = p]

\* The indices one turn of the loop adds: for j in range(1, len(neighbors)),
\* those with similarity > threshold. The first neighbour is taken to be the
\* item itself and is not looked at.
MarkedInTurn(emb, thr, i) ==
    LET neighbors_indices == get_nns_by_item(emb, i, NNS_K)
    IN  {neighbors_indices[j] : j \in {p \in 2..Len(neighbors_indices) :
            cos_sim(emb[i], emb[neighbors_indices[p]]) > thr}}

\* One iteration of "for i in range(len(articles))" on the seen-set.
DedupTurn(emb, thr, dup, i) ==
    IF i \in dup THEN dup ELSE dup \cup MarkedInTurn(emb, thr, i)

\* The seen-set after the turns 1..i.
RECURSIVE DuplicatesAfter(_, _, _)
DuplicatesAfter(emb, thr, i) ==
    IF i = 0 THEN {}
    ELSE DedupTurn(emb, thr, DuplicatesAfter(emb, thr, i - 1), i)

\* A slip in the list comprehension: the kept articles in reverse order.
CleanedArticlesReversed(arts, dup) ==
    LET kept == {i \in 1..Len(arts) : i \notin dup}
        nth(p) == CHOOSE i \in kept : Cardinality({j \in kept : j > i}) = p - 1
    IN  [p \in 1..Cardinality(kept) |-> arts[nth(p)]]

\* [article for idx, article in enumerate(articles) if idx not in duplicate_indices]
CleanedArticles(arts, dup) ==
    LET kept == {i \in 1..Len(arts) : i \notin dup}
        nth(p) == CHOOSE i \in kept : Cardinality({j \in kept : j < i}) = p - 1
    IN  [p \in 1..Cardinality(kept) |-> arts[nth(p)]]

\* The whole call, as a function of its inputs and of the encoder's vectors.
deduplicate_news_with_annoy(arts, emb, thr) ==
    IF Len(arts) = 0 THEN <<>>
    ELSE CleanedArticles(arts, DuplicatesAfter(emb, thr, Len(arts)))

\* The articles a call is tried on.
ArticleSet ==
    { [title |-> <<"A">>, full_text |-> <<"x">>],
      [title |-> <<"A">>, full_text |-> <<"y">>],
      [title |-> <<"B">>, full_text |-> <<"x">>] }

ArticleLists == UNION {[1..n -> ArticleSet] : n \in 0..MaxArticles}

\* No deduplicate_news_with_annoy call is being followed.
DedupParked ==
    /\ articles = <<>>
    /\ embeddings = <<>>
    /\ threshold = DEFAULT_THRESHOLD
    /\ duplicate_indices = {}
    /\ dedup_i = 0
    /\ dedup_pc = "parked"
    /\ cleaned_articles = <<>>

DedupInit ==
    /\ articles \in ArticleLists
    /\ embeddings \in Encodings(articles)
    /\ threshold = DEFAULT_THRESHOLD
    /\ duplicate_indices = {}
    /\ dedup_i = 0
    /\ dedup_pc = "start"
    /\ cleaned_articles = <<>>

\* if not articles: return []
DedupEmpty ==
    /\ dedup_pc = "start"
    /\ Len(articles) = 0
    /\ cleaned_articles' = <<>>
    /\ dedup_pc' = "done"
    /\ UNCHANGED <<articles, embeddings, threshold, duplicate_indices, dedup_i>>
    /\ UNCHANGED notDedup

\* encode, build the index, duplicate_indices = set()
DedupBuild ==
    /\ dedup_pc = "start"
    /\ Len(articles) > 0
    /\ duplicate_indices' = {}
    /\ dedup_i' = 1
    /\ dedup_pc' = "loop"
    /\ UNCHANGED <<articles, embeddings, threshold, cleaned_articles>>
    /\ UNCHANGED notDedup

\* one iteration of the for loop
DedupStep ==
    /\ dedup_pc = "loop"
    /\ dedup_i <= Len(articles)
    /\ duplicate_indices' = DedupTurn(embeddings, threshold, duplicate_indices, dedup_i)
    /\ dedup_i' = dedup_i + 1
    /\ UNCHANGED <<articles, embeddings, threshold, dedup_pc, cleaned_articles>>
    /\ UNCHANGED notDedup

\* the list comprehension and the return
DedupReturn ==
    /\ dedup_pc = "loop"
    /\ dedup_i > Len(articles)
    /\ cleaned_articles' = CleanedArticles(articles, duplicate_indices)
    /\ dedup_pc' = "done"
    /\ UNCHANGED <<articles, embeddings, threshold, duplicate_indices, dedup_i>>
    /\ UNCHANGED notDedup

DedupNext == DedupEmpty \/ DedupBuild \/ DedupStep \/ DedupReturn

(***************************************************************************)
(* app/api/routes/parsers.py                                               *)
(***************************************************************************)

\* Bound: the runs of run_all_parsers_and_process that are started.
MaxRuns == 2

\* Bound: the items all parsers return, counted over all runs.
MaxParsed == 2

\* Bound: the database calls that fail, counted over all runs.
MaxDbErrors == 1

\* check_duplicate_in_raw_news compares the first 20 characters.
PREFIX_LEN == 20

\* The keys of PARSERS_REGISTRY, in insertion order.
PARSERS_REGISTRY == <<"rbc", "kommersant", "tradingview">>

P20 == Rep("x", PREFIX_LEN)

\* The dicts a parser can return. A parser may leave a key out.
ParserItems ==
    { [title |-> <<"A">>, full_text |-> P20 \o <<"y">>],
      [title |-> <<"A">>, full_text |-> P20 \o <<"z">>],
      [title |-> <<"A">>, full_text |-> <<>>],
      [title |-> <<"A">>] }

\* item.get(key, "")
ItemGet(item, key) == IF key \in DOMAIN item THEN item[key] ELSE <<>>

\* full_text[:20] if full_text else ""
TextPrefix(full_text) == IF Truthy(full_text) THEN Slice(full_text, PREFIX_LEN) ELSE <<>>

\* A slip in check_duplicate_in_raw_news: the whole text is compared.
CheckDuplicateWholeText(title, full_text, rows) ==
    \E k \in DOMAIN rows : rows[k].title = title /\ rows[k].full_text = full_text

\* check_duplicate_in_raw_news, when its query succeeds: a row with exactly
\* this title whose first 20 characters are those of full_text.
check_duplicate_in_raw_news(title, full_text, rows) ==
    LET existing_news == {k \in DOMAIN rows : rows[k].title = title}
    IN  \E k \in existing_news : TextPrefix(rows[k].full_text) = TextPrefix(full_text)

\* The row save_raw_news_to_db adds.
RawNewsRow(title, full_text, source) ==
    [title |-> title, full_text |-> full_text, source |-> source]

\* What unique_news.append receives.
UniqueItem(title, full_text, source) ==
    [title |-> title, full_text |-> full_text, source |-> source]

\* [{"title": ..., "full_text": ...} for item in unique_news]
formatted_for_dedup(unique) ==
    [k \in DOMAIN unique |-> [title |-> unique[k].title, full_text |-> unique[k].full_text]]

(* ---- the LLM's answers ------------------------------------------------- *)

\* JSON values json.loads can give.
JsonObject(fields) == [type |-> "object", fields |-> fields, items |-> <<>>]
JsonArray(items) == [type |-> "array", fields |-> <<>>, items |-> items]
JsonString(chars) == [type |-> "string", fields |-> <<>>, items |-> chars]
JsonNull == [type |-> "null", fields |-> <<>>, items |-> <<>>]

ProcessedFull ==
    JsonObject([ title |-> <<"T">>, full_text |-> <<"t">>, summary |-> <<"s">>,
                 is_positive |-> TRUE, is_ai_generated |-> FALSE,
                 tags |-> JsonArray(<<TAG_MAP.tag_finance, TAG_MAP.tag_tech>>) ])

\* An object without "summary", its tags given as one string.
ProcessedNoSummary ==
    JsonObject([ title |-> <<"T">>, full_text |-> <<"t">>, is_positive |-> TRUE,
                 tags |-> JsonString(TAG_MAP.tag_energy) ])

\* The answer text: what is left after strip() and the removal of the
\* markdown fence is either nothing, text that is not JSON, or a JSON value.
LLMAnswer(fence, body, json) == [fence |-> fence, body |-> body, json |-> json]

LLMAnswers ==
    { LLMAnswer(FALSE, "blank", JsonNull),          \* "" or blanks only
      LLMAnswer(TRUE, "blank", JsonNull),           \* an empty ```json fence
      LLMAnswer(FALSE, "not json", JsonNull),
      LLMAnswer(TRUE, "json", ProcessedFull),
      LLMAnswer(FALSE, "json", ProcessedNoSummary),
      LLMAnswer(FALSE, "json", JsonObject(<<>>)),   \* {}
      LLMAnswer(FALSE, "json", JsonArray(<<>>)),    \* []
      LLMAnswer(FALSE, "json", JsonNull) }          \* null

\* process_single_news_with_llm after generate_response_sync returned:
\* "none" for return None, "value" for return processed_news, "raise" when
\* processed_news.get(...) is called on a value that is no dict.
process_single_news_with_llm(answer) ==
    IF ~answer.fence /\ answer.body = "blank"
        THEN [outcome |-> "none", value |-> JsonNull]
    ELSE IF answer.body # "json"
        THEN [outcome |-> "none", value |-> JsonNull]
    ELSE IF answer.json.type # "object"
        THEN [outcome |-> "raise", value |-> JsonNull]
    ELSE [outcome |-> "value", value |-> answer.json]

\* "if processed_news": a dict is truthy when it is not empty.
DictTruthy(json) == json.type = "object" /\ DOMAIN json.fields # {}

\* The keys save_news_to_db reads with processed_news[...].
RequiredKeys == {"title", "full_text", "summary", "is_positive"}

\* tags_str of save_news_to_db
tags_str(fields) ==
    IF "tags" \notin DOMAIN fields THEN <<>>
    ELSE IF fields.tags.type = "array" THEN Join(fields.tags.items, <<",", " ">>)
    ELSE fields.tags.items

\* The NewsArticle save_news_to_db builds; created_at is the insertion time.
NewsArticleRow(fields, now) ==
    [ title |-> fields.title, full_text |-> fields.full_text,
      summary |-> fields.summary, is_positive |-> fields.is_positive,
      is_ai_generated |-> IF "is_ai_generated" \in DOMAIN fields
                          THEN fields.is_ai_generated ELSE FALSE,
      tags |-> tags_str(fields), tickers |-> NULL, created_at |-> now ]

\* The locals of run_all_parsers_and_process outside a run.
NoLlmYet == [idx |-> 0, outcome |-> "none", saved |-> FALSE]
NotReturned == [returned |-> FALSE, value |-> <<>>]

LocalsInit ==
    /\ parser_idx = 0
    /\ unique_news = <<>>
    /\ total_parsed = 0
    /\ total_skipped = 0
    /\ deduplicated_news = <<>>
    /\ llm_idx = 0
    /\ raw_at_start = 0
    /\ passed_check = {}
    /\ ml_returned = NotReturned
    /\ last_llm = NoLlmYet

\* No run is being followed and the tables are empty.
PipeParked ==
    /\ raw_news = <<>>
    /\ news_articles = <<>>
    /\ pipe_pc = "parked"
    /\ runs = 0
    /\ parsed_count = 0
    /\ db_errors = 0
    /\ LocalsInit

PipeInit ==
    /\ raw_news = <<>>
    /\ news_articles = <<>>
    /\ pipe_pc = "idle"
    /\ runs = 0
    /\ parsed_count = 0
    /\ db_errors = 0
    /\ LocalsInit

\* The function returns or is left by an exception: its locals are gone.
LeaveRun ==
    /\ pipe_pc' = "idle"
    /\ parser_idx' = 0
    /\ unique_news' = <<>>
    /\ total_parsed' = 0
    /\ total_skipped' = 0
    /\ deduplicated_news' = <<>>
    /\ llm_idx' = 0
    /\ raw_at_start' = 0
    /\ passed_check' = {}
    /\ ml_returned' = NotReturned
    /\ last_llm' = NoLlmYet

\* run_all_parsers_and_process is entered: unique_news = [], the counters 0.
StartRun ==
    /\ pipe_pc = "idle"
    /\ runs < MaxRuns
    /\ runs' = runs + 1
    /\ pipe_pc' = "parser"
    /\ parser_idx' = 1
    /\ raw_at_start' = Len(raw_news)
    /\ UNCHANGED <<raw_news, news_articles, unique_news, total_parsed, total_skipped,
                   deduplicated_news, llm_idx, parsed_count, passed_check,
                   ml_returned, last_llm, db_errors>>
    /\ UNCHANGED notPipe

\* The loop over PARSERS_REGISTRY moves on; after the last parser the run
\* returns when unique_news is empty and goes on to the ML step otherwise.
\* (The write of raw_news.json in between changes nothing that is read.)
AfterParser ==
    IF parser_idx < Len(PARSERS_REGISTRY)
    THEN /\ parser_idx' = parser_idx + 1
         /\ pipe_pc' = "parser"
         /\ UNCHANGED <<unique_news, total_parsed, total_skipped, deduplicated_news,
                        llm_idx, raw_at_start, passed_check, ml_returned, last_llm>>
    ELSE IF Len(unique_news) = 0
    THEN LeaveRun
    ELSE /\ pipe_pc' = "dedup"
         /\ UNCHANGED <<parser_idx, unique_news, total_parsed, total_skipped,
                        deduplicated_news, llm_idx, raw_at_start, passed_check,
                        ml_returned, last_llm>>

\* parser_func() raises, or returns nothing to iterate over.
ParserYieldsNothing ==
    /\ pipe_pc = "parser"
    /\ AfterParser
    /\ UNCHANGED <<raw_news, news_articles, runs, parsed_count, db_errors>>
    /\ UNCHANGED notPipe

\* One iteration of "for item in news_items". The returned list is revealed
\* item by item: at "parser" this is the first item of a non-empty list.
\* The duplicate query and the commit may each fail (queryFails, commitFails).
ParserItem(item, queryFails, commitFails) ==
    /\ pipe_pc \in {"parser", "items"}
    /\ parsed_count < MaxParsed
    /\ parsed_count' = parsed_count + 1
    /\ pipe_pc' = "items"
    /\ total_parsed' = total_parsed + 1
    /\ LET title     == ItemGet(item, "title")
           full_text == ItemGet(item, "full_text")
           name      == PARSERS_REGISTRY[parser_idx]
           \* except Exception: return False
           duplicate == ~queryFails /\ check_duplicate_in_raw_news(title, full_text, raw_news)
       IN  IF duplicate
           THEN /\ total_skipped' = total_skipped + 1
                /\ ~commitFails
                /\ UNCHANGED <<raw_news, unique_news, passed_check>>
           ELSE /\ total_skipped' = total_skipped
                /\ passed_check' = passed_check \cup
                        {[title |-> title, full_text |-> full_text]}
                /\ IF ~commitFails
                   THEN /\ raw_news' = Append(raw_news, RawNewsRow(title, full_text, name))
                        /\ unique_news' = Append(unique_news, UniqueItem(title, full_text, name))
                   ELSE UNCHANGED <<raw_news, unique_news>>
    /\ db_errors' = db_errors + (IF queryFails THEN 1 ELSE 0) + (IF commitFails THEN 1 ELSE 0)
    /\ db_errors' <= MaxDbErrors
    /\ UNCHANGED <<news_articles, parser_idx, deduplicated_news, llm_idx, runs,
                   raw_at_start, ml_returned, last_llm>>
    /\ UNCHANGED notPipe

\* The list of the current parser is exhausted.
ParserListEnds ==
    /\ pipe_pc = "items"
    /\ AfterParser
    /\ UNCHANGED <<raw_news, news_articles, runs, parsed_count, db_errors>>
    /\ UNCHANGED notPipe

\* deduplicated_news after the try block of step 3 when the call returned
\* result: the handler replaces it by all of unique_news when the write of
\* deduplicated_news.json raised.
DeduplicatedAfterTry(result, fileFails) ==
    IF fileFails THEN formatted_for_dedup(unique_news) ELSE result

\* Step 3, deduplicate_news_with_annoy raises.
MLDedupRaises ==
    /\ pipe_pc = "dedup"
    /\ deduplicated_news' = formatted_for_dedup(unique_news)
    /\ ml_returned' = NotReturned
    /\ pipe_pc' = "llm"
    /\ llm_idx' = 1
    /\ UNCHANGED <<raw_news, news_articles, parser_idx, unique_news, total_parsed,
                   total_skipped, runs, parsed_count, raw_at_start, passed_check,
                   last_llm, db_errors>>
    /\ UNCHANGED notPipe

\* Step 3, deduplicate_news_with_annoy returns; the write of
\* deduplicated_news.json then succeeds or raises.
MLDedupReturns(emb, fileFails) ==
    /\ pipe_pc = "dedup"
    /\ LET result == deduplicate_news_with_annoy(formatted_for_dedup(unique_news),
                                                 emb, DEFAULT_THRESHOLD)
       IN  /\ ml_returned' = [returned |-> TRUE, value |-> result]
           /\ deduplicated_news' = DeduplicatedAfterTry(result, fileFails)
    /\ pipe_pc' = "llm"
    /\ llm_idx' = 1
    /\ UNCHANGED <<raw_news, news_articles, parser_idx, unique_news, total_parsed,
                   total_skipped, runs, parsed_count, raw_at_start, passed_check,
                   last_llm, db_errors>>
    /\ UNCHANGED notPipe

\* Step 4, generate_response_sync raises. Nothing catches it: the run is
\* left through finally: db.close().
LLMCallRaises ==
    /\ pipe_pc = "llm"
    /\ llm_idx <= Len(deduplicated_news)
    /\ LeaveRun
    /\ UNCHANGED <<raw_news, news_articles, runs, parsed_count, db_errors>>
    /\ UNCHANGED notPipe

\* Step 4, the answer parses to a value that is no dict: processed_news.get
\* raises AttributeError, which nothing catches either.
LLMNotDictRaises(answer) ==
    /\ pipe_pc = "llm"
    /\ llm_idx <= Len(deduplicated_news)
    /\ process_single_news_with_llm(answer).outcome = "raise"
    /\ LeaveRun
    /\ UNCHANGED <<raw_news, news_articles, runs, parsed_count, db_errors>>
    /\ UNCHANGED notPipe

\* Step 4, one iteration of the loop over deduplicated_news with an answer.
LLMItem(answer, commitFails) ==
    /\ pipe_pc = "llm"
    /\ llm_idx <= Len(deduplicated_news)
    /\ LET processed == process_single_news_with_llm(answer)
           fields    == processed.value.fields
           try_save  == processed.outcome = "value" /\ DictTruthy(processed.value)
           complete  == RequiredKeys \subseteq DOMAIN fields
           saved     == try_save /\ complete /\ ~commitFails
       IN  /\ processed.outcome # "raise"
           /\ (~(try_save /\ complete)) => ~commitFails    \* no commit is attempted
           /\ news_articles' = IF saved
                               THEN Append(news_articles,
                                           NewsArticleRow(fields, Len(news_articles) + 1))
                               ELSE news_articles
           /\ db_errors' = db_errors + (IF commitFails THEN 1 ELSE 0)
           /\ db_errors' <= MaxDbErrors
           /\ last_llm' = [idx |-> llm_idx, outcome |-> processed.outcome, saved |-> saved]
    /\ llm_idx' = llm_idx + 1
    /\ UNCHANGED <<raw_news, pipe_pc, parser_idx, unique_news, total_parsed,
                   total_skipped, deduplicated_news, runs, parsed_count, raw_at_start,
                   passed_check, ml_returned>>
    /\ UNCHANGED notPipe

\* The loop over deduplicated_news is over: the run returns.
RunEnds ==
    /\ pipe_pc = "llm"
    /\ llm_idx > Len(deduplicated_news)
    /\ LeaveRun
    /\ UNCHANGED <<raw_news, news_articles, runs, parsed_count, db_errors>>
    /\ UNCHANGED notPipe

ParserItemStep ==
    \E item \in ParserItems, queryFails \in BOOLEAN, commitFails \in BOOLEAN :
        ParserItem(item, queryFails, commitFails)

MLDedupReturnsStep ==
    \E emb \in Encodings(formatted_for_dedup(unique_news)), fileFails \in BOOLEAN :
        MLDedupReturns(emb, fileFails)

LLMNotDictRaisesStep == \E answer \in LLMAnswers : LLMNotDictRaises(answer)

LLMItemStep == \E answer \in LLMAnswers, commitFails \in BOOLEAN : LLMItem(answer, commitFails)

PipeNext ==
    \/ StartRun
    \/ ParserYieldsNothing
    \/ ParserItemStep
    \/ ParserListEnds
    \/ MLDedupRaises
    \/ MLDedupReturnsStep
    \/ LLMCallRaises
    \/ LLMNotDictRaisesStep
    \/ LLMItemStep
    \/ RunEnds

(***************************************************************************)
(* The users table, app/api/routes/users.py and app/api/routes/news.py     *)
(*                                                                         *)
(* The requests come from an authenticated, active user. Articles reach    *)
(* news_articles through save_news_to_db only, so their tickers column is  *)
(* NULL and their tags are whatever the LLM answered: nothing in the code  *)
(* checks the answer against the prompt's list or its "1-3 tags".          *)
(***************************************************************************)

\* Articles in the table.
MaxNews == 2

\* Tag scores stay within -MaxScore .. MaxScore.
MaxScore == 2

\* The largest explicit value of the query parameter top.
MaxTop == 2

\* top: int = Query(10, ge=1)
DEFAULT_TOP == 10
MIN_TOP == 1

\* A tag is of interest when its score is >= -1.
INTEREST_MIN == 0 - 1

HTTP_200_OK == 200
HTTP_404_NOT_FOUND == 404
HTTP_422_UNPROCESSABLE == 422

\* The row create_user commits: active, no invest_token (the one of the
\* request is not copied), no tickers, every tag score 0.
NewUser(id, email, username, hashed_password) ==
    [ id |-> id, email |-> email, username |-> username,
      hashed_password |-> hashed_password, is_active |-> TRUE,
      invest_token |-> NULL, tickers |-> NULL ]
        @@ [f \in TagFields |-> 0]

\* The table tradingview_companies.
tradingview_companies == <<[id |-> 1, ticker |-> <<"T">>]>>

\* No JWT, no Set-Cookie header, no body.
NoToken == [sub |-> 0, exp_in |-> 0]
NoCookie ==
    [ key |-> "", value |-> NoToken, httponly |-> FALSE, secure |-> FALSE,
      samesite |-> "", max_age |-> 0, path |-> "" ]
NoBody == <<>>

NoResponse ==
    [ op |-> "none", status |-> 0, user |-> 0, params |-> <<>>, body |-> NoBody,
      cookie |-> NoCookie ]

Response(op, status, user, params, body) ==
    [ op |-> op, status |-> status, user |-> user, params |-> params, body |-> body,
      cookie |-> NoCookie ]

\* The loop of _update_user_tags over article_tags.
RECURSIVE UpdateTagsLoop(_, _, _)
UpdateTagsLoop(user, article_tags, increment) ==
    IF Len(article_tags) = 0 THEN user
    ELSE LET tag_name == Head(article_tags)
             updated  == IF tag_name \in DOMAIN FIELD_MAP
                         THEN [user EXCEPT ![FIELD_MAP[tag_name]] = @ + increment]
                         ELSE user
         IN  UpdateTagsLoop(updated, Tail(article_tags), increment)

\* _update_user_tags(user, news_article, increment): the user afterwards.
update_user_tags(user, news_article, increment) ==
    IF ~Truthy(news_article.tags) THEN user
    ELSE LET parts == Split(news_article.tags)
             article_tags == [k \in DOMAIN parts |-> Strip(parts[k])]
         IN  UpdateTagsLoop(user, article_tags, increment)

\* The entries of a comma-separated column.
Entries(column) ==
    IF column = NULL THEN {} ELSE {Strip(e) : e \in Range(Split(column))}

\* The server takes the next request once the previous one is answered.
Idle == response.op = "none"

\* The response is returned to the client.
Respond ==
    /\ ~Idle
    /\ response' = NoResponse
    /\ UNCHANGED <<users, sent, news_articles>>
    /\ UNCHANGED notNews

\* like_news (increment 1) and dislike_news (increment -1).
Interaction(op, u, news_id, increment) ==
    /\ Idle
    /\ u \in DOMAIN users
    /\ users[u].is_active
    /\ IF news_id \notin DOMAIN news_articles
       THEN /\ response' = Response(op, HTTP_404_NOT_FOUND, u, [news_id |-> news_id], <<>>)
            /\ UNCHANGED <<users, sent>>
       ELSE LET news_article == news_articles[news_id]
                updated == update_user_tags(users[u], news_article, increment)
            IN  /\ \A f \in TagFields : updated[f] \in (0 - MaxScore)..MaxScore
                /\ users' = [users EXCEPT ![u] = updated]
                /\ sent' = [sent EXCEPT ![u] =
                              [f \in TagFields |->
                                  IF TAG_MAP[f] \in Entries(news_article.tags)
                                  THEN @[f] + increment ELSE @[f]]]
                /\ response' = Response(op, HTTP_200_OK, u, [news_id |-> news_id], <<>>)
    /\ UNCHANGED news_articles
    /\ UNCHANGED notNews

like_news == \E u \in DOMAIN users, news_id \in 1..(MaxNews + 1) :
                 Interaction("like_news", u, news_id, 1)

dislike_news == \E u \in DOMAIN users, news_id \in 1..(MaxNews + 1) :
                    Interaction("dislike_news", u, news_id, 0 - 1)

\* The order of str for the characters tickers are written with.
CharOrder == <<" ", ",", "S", "T", "X">>
Ord(c) == CHOOSE k \in DOMAIN CharOrder : CharOrder[k] = c

RECURSIVE StrLess(_, _)
StrLess(a, b) ==
    IF Len(b) = 0 THEN FALSE
    ELSE IF Len(a) = 0 THEN TRUE
    ELSE IF Head(a) # Head(b) THEN Ord(Head(a)) < Ord(Head(b))
    ELSE StrLess(Tail(a), Tail(b))

\* sorted(list(ticker_set))
Sorted(strs) ==
    LET rank == [t \in strs |-> 1 + Cardinality({o \in strs : StrLess(o, t)})]
    IN  [k \in 1..Cardinality(strs) |-> CHOOSE t \in strs : rank[t] = k]

\* {t.strip() for t in (current_user.tickers or "").split(',') if t.strip()}
ticker_set(user) ==
    LET user_tickers_str == IF user.tickers = NULL THEN <<>> ELSE user.tickers
    IN  {Strip(t) : t \in Range(Split(user_tickers_str))} \ {<<>>}

add_ticker_to_favorites ==
    \E u \in DOMAIN users, company_id \in 1..(Len(tradingview_companies) + 1) :
        /\ Idle
        /\ users[u].is_active
        /\ IF company_id \notin DOMAIN tradingview_companies
           THEN /\ response' = Response("add_ticker", HTTP_404_NOT_FOUND, u,
                                        [company_id |-> company_id], <<>>)
                /\ users' = users
           ELSE LET company == tradingview_companies[company_id]
                    tickers == Join(Sorted(ticker_set(users[u]) \cup {company.ticker}),
                                    <<",", " ">>)
                IN  /\ users' = [users EXCEPT ![u].tickers = tickers]
                    /\ response' = Response("add_ticker", HTTP_200_OK, u,
                                            [company_id |-> company_id], tickers)
        /\ UNCHANGED <<sent, news_articles>>
        /\ UNCHANGED notNews

remove_ticker_from_favorites ==
    \E u \in DOMAIN users, ticker \in {<<"T">>, <<"X">>} :
        /\ Idle
        /\ users[u].is_active
        /\ LET tickers == Join(Sorted(ticker_set(users[u]) \ {ticker}), <<",", " ">>)
           IN  /\ users' = [users EXCEPT ![u].tickers = tickers]
               /\ response' = Response("remove_ticker", HTTP_200_OK, u,
                                       [ticker |-> ticker], tickers)
        /\ UNCHANGED <<sent, news_articles>>
        /\ UNCHANGED notNews

(* ---- GET /api/news ----------------------------------------------------- *)

\* [tag_name for field, tag_name in TAG_MAP.items() if getattr(user, field) >= -1]
user_interested_tags(user) == {TAG_MAP[f] : f \in {g \in TagFields : user[g] >= INTEREST_MIN}}

\* [ticker.strip() for ticker in current_user.tickers.split(',')]
user_tickers(user) == {Strip(t) : t \in Range(Split(user.tickers))}

\* or_(*[column.contains(x) for x in xs])
AnyContains(column, xs) == \E x \in xs : Contains(column, x)

\* The conditions of user_conditions that are present.
HasTagCondition(user) == user_interested_tags(user) # {}
HasTickerCondition(user) == Truthy(user.tickers)

\* or_(*user_conditions), for a row
UserConditions(user, row) ==
    \/ AnyContains(row.tags, user_interested_tags(user))
    \/ HasTickerCondition(user) /\ AnyContains(row.tickers, user_tickers(user))

\* and_(*all_conditions), for a row; an absent condition does not filter.
AllConditions(user, filter, tickers, tags, row) ==
    /\ (filter /\ (HasTagCondition(user) \/ HasTickerCondition(user)))
           => UserConditions(user, row)
    /\ Len(tickers) > 0 => AnyContains(row.tickers, Range(tickers))
    /\ Len(tags) > 0 => AnyContains(row.tags, Range(tags))

\* order_by(created_at.desc()).limit(top), as a list of ids
OrderLimit(ids, top) ==
    LET rank == [i \in ids |->
                    1 + Cardinality({j \in ids :
                          news_articles[j].created_at > news_articles[i].created_at})]
    IN  [k \in 1..Min(top, Cardinality(ids)) |-> CHOOSE i \in ids : rank[i] = k]

\* The ids read_news returns.
news_list(user, top, filter, tickers, tags) ==
    OrderLimit({i \in DOMAIN news_articles :
                    AllConditions(user, filter, tickers, tags, news_articles[i])}, top)

\* The values of the query parameters; an absent list is the empty list
\* (FastAPI gives None, and "if tickers" treats both alike), an absent
\* filter is False, an absent top is DEFAULT_TOP.
TopValues == 0..MaxTop \cup {DEFAULT_TOP}
TickersValues == {<<>>, <<<<"T">>>>}
TagsValues == {<<>>, <<<<"f">>>>, <<TAG_MAP.tag_finance, <<"z", "z">>>>}

read_news ==
    \E u \in DOMAIN users, top \in TopValues, filter \in BOOLEAN,
       tickers \in TickersValues, tags \in TagsValues :
        /\ Idle
        /\ users[u].is_active
        /\ LET params == [top |-> top, filter |-> filter, tickers |-> tickers, tags |-> tags]
           IN  response' =
                   IF top < MIN_TOP
                   THEN Response("read_news", HTTP_422_UNPROCESSABLE, u, params, <<>>)
                   ELSE Response("read_news", HTTP_200_OK, u, params,
                                 news_list(users[u], top, filter, tickers, tags))
        /\ UNCHANGED <<users, sent, news_articles>>
        /\ UNCHANGED notNews

(* ---- the articles the pipeline stores ---------------------------------- *)

\* The tags of the LLM's answers: seven names as a list, the other seven as
\* one string with uneven blanks, and a list that repeats a name and holds
\* one that is not in TAG_MAP.
TagAnswers ==
    { JsonArray(<<TAG_MAP.tag_energy, TAG_MAP.tag_finance, TAG_MAP.tag_tech,
                  TAG_MAP.tag_industry, TAG_MAP.tag_consumer_sector,
                  TAG_MAP.tag_infrastructure, TAG_MAP.tag_agriculture>>),
      JsonString(TAG_MAP.tag_healthcare \o <<",">> \o TAG_MAP.tag_real_estate
                 \o <<",", " ">> \o TAG_MAP.tag_materials \o <<" ", ",">>
                 \o TAG_MAP.tag_telecom \o <<",">> \o TAG_MAP.tag_entertainment
                 \o <<",">> \o TAG_MAP.tag_education \o <<",", " ">>
                 \o TAG_MAP.tag_ecommerce),
      JsonArray(<<TAG_MAP.tag_finance, TAG_MAP.tag_finance, <<"z", "z">>>>) }

\* save_news_to_db commits the article of an answer with these tags. The
\* query of read_news is one statement, so a commit falls before or after it.
save_news_to_db ==
    \E tags \in TagAnswers :
        /\ Idle
        /\ Len(news_articles) < MaxNews
        /\ LET fields == [ProcessedFull.fields EXCEPT !.tags = tags]
           IN  news_articles' =
                   Append(news_articles, NewsArticleRow(fields, Len(news_articles) + 1))
        /\ UNCHANGED <<users, sent, response>>
        /\ UNCHANGED notNews

\* No sandbox is in use, no handler has run, no brokerage call was made.
NoSandbox == [accounts |-> <<>>, instruments |-> <<>>, operations |-> {}]

ProxyParked ==
    /\ handled = <<>>
    /\ sandbox = NoSandbox
    /\ calls = <<>>

\* No request has been made and nobody is registered.
ApiParked ==
    /\ users = <<>>
    /\ sent = <<>>
    /\ response = NoResponse
    /\ requests = <<>>
    /\ ProxyParked

\* One registered user, no article yet.
NewsInit ==
    /\ users = <<NewUser(1, "a@x", "ann", <<"bcrypt", "pw1">>)>>
    /\ sent = <<[f \in TagFields |-> 0]>>
    /\ response = NoResponse
    /\ requests = <<>>

NewsNext ==
    \/ save_news_to_db
    \/ like_news
    \/ dislike_news
    \/ add_ticker_to_favorites
    \/ remove_ticker_from_favorites
    \/ read_news
    \/ Respond

(***************************************************************************)
(* app/api/routes/auth.py, app/utils/user.py, app/utils/security.py        *)
(*                                                                         *)
(* /register and PUT /me are followed statement by statement, since the    *)
(* claim about them is one about interleavings: every database call of a   *)
(* request is a step of its own. Each request has its own session, and so  *)
(* its own copy of current_user, loaded when the request arrives.          *)
(***************************************************************************)

Emails == {"a@x", "b@x"}

\* "a@x" is a username that is written like somebody's email.
Usernames == {"ann", "a@x"}

Passwords == {"pw1", "pw2"}

\* The requests that can be in flight at the same time.
Requests == {"r1", "r2"}

\* A field of UserUpdate the request body does not set.
UNSET == "<unset>"

HTTP_201_CREATED == 201
HTTP_400_BAD_REQUEST == 400
HTTP_401_UNAUTHORIZED == 401

ACCESS_TOKEN_EXPIRE_MINUTES == 30

\* pwd_context.hash and pwd_context.verify
get_password_hash(password) == <<"bcrypt", password>>
verify_password(plain_password, hashed_password) ==
    hashed_password[1] = "bcrypt" /\ hashed_password[2] = plain_password

\* db.query(User).filter(User.email == email).first(): the index of the row, 0 for None
get_user_by_email(rows, email) ==
    IF \E u \in DOMAIN rows : rows[u].email = email
    THEN CHOOSE u \in DOMAIN rows :
             rows[u].email = email /\ \A v \in 1..(u - 1) : rows[v].email # email
    ELSE 0

get_user_by_username(rows, username) ==
    IF \E u \in DOMAIN rows : rows[u].username = username
    THEN CHOOSE u \in DOMAIN rows :
             rows[u].username = username /\ \A v \in 1..(u - 1) : rows[v].username # username
    ELSE 0

\* Without the unique indexes nothing is refused at commit.
NoUniqueIndex(rows, self, email, username) == FALSE

\* The unique indexes on users.email and users.username: the commit of a row
\* with these values raises IntegrityError when another row holds one of them.
UniqueViolation(rows, self, email, username) ==
    \E u \in DOMAIN rows \ {self} : rows[u].email = email \/ rows[u].username = username

NoRequest == [op |-> "none", pc |-> "none", user_in |-> <<>>, current_user |-> <<>>]

\* The request is over: its response is sent and its session closed.
Finish(r, op, status, detail) ==
    /\ requests' = [requests EXCEPT ![r] = NoRequest]
    /\ response' = Response(op, status, 0, [request |-> r], detail)

\* The request goes on to its next statement; nothing is sent.
Goto(r, pc) ==
    /\ requests' = [requests EXCEPT ![r].pc = pc]
    /\ response' = NoResponse

notAuth == <<dedupVars, tableVars, pipeVars, sent, proxyVars>>

(* ---- POST /register ---------------------------------------------------- *)

RegisterArrives ==
    \E r \in Requests, email \in Emails, username \in Usernames :
        /\ requests[r].op = "none"
        /\ requests' = [requests EXCEPT ![r] =
               [ op |-> "register", pc |-> "check_email",
                 user_in |-> [email |-> email, username |-> username, password |-> "pw1"],
                 current_user |-> <<>> ]]
        /\ response' = NoResponse
        /\ UNCHANGED users
        /\ UNCHANGED notAuth

RegisterCheckEmail ==
    \E r \in Requests :
        /\ requests[r].op = "register" /\ requests[r].pc = "check_email"
        /\ IF get_user_by_email(users, requests[r].user_in.email) # 0
           THEN Finish(r, "register", HTTP_400_BAD_REQUEST, "email exists")
           ELSE Goto(r, "check_username")
        /\ UNCHANGED users
        /\ UNCHANGED notAuth

RegisterCheckUsername ==
    \E r \in Requests :
        /\ requests[r].op = "register" /\ requests[r].pc = "check_username"
        /\ IF get_user_by_username(users, requests[r].user_in.username) # 0
           THEN Finish(r, "register", HTTP_400_BAD_REQUEST, "username exists")
           ELSE Goto(r, "create_user")
        /\ UNCHANGED users
        /\ UNCHANGED notAuth

\* create_user: db.add, db.commit; IntegrityError goes to integrity_error_handler.
RegisterCreateUser ==
    \E r \in Requests :
        /\ requests[r].op = "register" /\ requests[r].pc = "create_user"
        /\ LET user_in == requests[r].user_in
           IN  IF UniqueViolation(users, 0, user_in.email, user_in.username)
               THEN /\ Finish(r, "register", HTTP_400_BAD_REQUEST, "integrity error")
                    /\ UNCHANGED users
               ELSE /\ users' = Append(users,
                                       NewUser(Len(users) + 1, user_in.email, user_in.username,
                                               get_password_hash(user_in.password)))
                    /\ Finish(r, "register", HTTP_201_CREATED, "created")
        /\ UNCHANGED notAuth

(* ---- PUT /me ----------------------------------------------------------- *)

\* get_current_active_user loads the row; user_in holds the fields the body
\* sets. The bodies followed here set email and username, in every
\* combination, and leave the password as it is.
UpdateArrives ==
    \E r \in Requests, u \in DOMAIN users,
       email \in Emails \cup {UNSET}, username \in Usernames \cup {UNSET},
       password \in {UNSET} :
        /\ requests[r].op = "none"
        /\ users[u].is_active
        /\ requests' = [requests EXCEPT ![r] =
               [ op |-> "update", pc |-> "check_email",
                 user_in |-> [email |-> email, username |-> username, password |-> password],
                 current_user |-> [ id |-> u, email |-> users[u].email,
                                    username |-> users[u].username ] ]]
        /\ response' = NoResponse
        /\ UNCHANGED users
        /\ UNCHANGED notAuth

UpdateCheckEmail ==
    \E r \in Requests :
        /\ requests[r].op = "update" /\ requests[r].pc = "check_email"
        /\ LET user_in == requests[r].user_in
           IN  IF /\ user_in.email # UNSET
                  /\ user_in.email # requests[r].current_user.email
                  /\ get_user_by_email(users, user_in.email) # 0
               THEN Finish(r, "update", HTTP_400_BAD_REQUEST, "email exists")
               ELSE Goto(r, "check_username")
        /\ UNCHANGED users
        /\ UNCHANGED notAuth

UpdateCheckUsername ==
    \E r \in Requests :
        /\ requests[r].op = "update" /\ requests[r].pc = "check_username"
        /\ LET user_in == requests[r].user_in
           IN  IF /\ user_in.username # UNSET
                  /\ user_in.username # requests[r].current_user.username
                  /\ get_user_by_username(users, user_in.username) # 0
               THEN Finish(r, "update", HTTP_400_BAD_REQUEST, "username exists")
               ELSE Goto(r, "update_user")
        /\ UNCHANGED users
        /\ UNCHANGED notAuth

\* The columns the UPDATE of update_user writes: setattr on the session's
\* copy of the user, of which only the attributes that got another value
\* than the loaded one are flushed.
WrittenEmail(request) ==
    IF request.user_in.email # UNSET /\ request.user_in.email # request.current_user.email
    THEN request.user_in.email ELSE UNSET

WrittenUsername(request) ==
    IF /\ request.user_in.username # UNSET
       /\ request.user_in.username # request.current_user.username
    THEN request.user_in.username ELSE UNSET

\* The row after the UPDATE.
UpdatedRow(row, request) ==
    [row EXCEPT
        !.email = IF WrittenEmail(request) # UNSET THEN WrittenEmail(request) ELSE @,
        !.username = IF WrittenUsername(request) # UNSET THEN WrittenUsername(request) ELSE @,
        !.hashed_password = IF request.user_in.password # UNSET
                            THEN get_password_hash(request.user_in.password) ELSE @]

\* update_user: setattr for every set field, db.commit.
UpdateUser ==
    \E r \in Requests :
        /\ requests[r].op = "update" /\ requests[r].pc = "update_user"
        /\ LET id == requests[r].current_user.id
               written_email == WrittenEmail(requests[r])
               written_username == WrittenUsername(requests[r])
           IN  IF UniqueViolation(users, id, written_email, written_username)
               THEN /\ Finish(r, "update", HTTP_400_BAD_REQUEST, "integrity error")
                    /\ UNCHANGED users
               ELSE /\ users' = [users EXCEPT ![id] = UpdatedRow(@, requests[r])]
                    /\ Finish(r, "update", HTTP_200_OK, "updated")
        /\ UNCHANGED notAuth

AuthInit ==
    /\ users = <<>>
    /\ sent = <<>>
    /\ response = NoResponse
    /\ requests = [r \in Requests |-> NoRequest]

AuthNext ==
    \/ RegisterArrives
    \/ RegisterCheckEmail
    \/ RegisterCheckUsername
    \/ RegisterCreateUser
    \/ UpdateArrives
    \/ UpdateCheckEmail
    \/ UpdateCheckUsername
    \/ UpdateUser

(* ---- POST /login ------------------------------------------------------- *)

\* Rows in the users table of a login.
MaxLoginUsers == 2

\* create_access_token: the JWT, by its claims.
create_access_token(subject, expires_minutes) == [sub |-> subject, exp_in |-> expires_minutes]

\* Users found by username before email.
LoginUserByUsernameFirst(rows, identifier) ==
    IF get_user_by_username(rows, identifier) # 0
    THEN get_user_by_username(rows, identifier)
    ELSE get_user_by_email(rows, identifier)

\* The user of form_data.username: by email, and by username if no email matches.
LoginUser(rows, identifier) ==
    IF get_user_by_email(rows, identifier) # 0
    THEN get_user_by_email(rows, identifier)
    ELSE get_user_by_username(rows, identifier)

\* response.set_cookie(key="access_token", value=access_token, httponly=True, ...)
set_cookie(access_token, max_age) ==
    [ key |-> "access_token", value |-> access_token, httponly |-> TRUE,
      secure |-> TRUE, samesite |-> "none", max_age |-> max_age, path |-> "/" ]

login ==
    \E identifier \in Emails \cup Usernames, password \in Passwords :
        LET user == LoginUser(users, identifier)
            params == [username |-> identifier, password |-> password]
            access_token == create_access_token(users[user].id, ACCESS_TOKEN_EXPIRE_MINUTES)
        IN  /\ response' =
                  IF user = 0 \/ ~verify_password(password, users[user].hashed_password)
                  THEN Response("login", HTTP_401_UNAUTHORIZED, 0, params, NoBody)
                  ELSE IF ~users[user].is_active
                  THEN Response("login", HTTP_400_BAD_REQUEST, 0, params, NoBody)
                  ELSE [ Response("login", HTTP_200_OK, 0, params,
                                  [access_token |-> access_token, token_type |-> "bearer"])
                         EXCEPT !.cookie = set_cookie(access_token,
                                                      ACCESS_TOKEN_EXPIRE_MINUTES * 60) ]
            /\ UNCHANGED <<users, sent, requests>>
            /\ UNCHANGED <<dedupVars, tableVars, pipeVars, proxyVars>>

\* The users tables a login can meet: rows as create_user and update_user
\* leave them, emails and usernames unique; is_active is a column no request
\* clears, a row with False has been deactivated in the database.
LoginRows ==
    { [NewUser(0, email, username, get_password_hash(password)) EXCEPT !.is_active = active] :
          email \in Emails, username \in Usernames, password \in Passwords,
          active \in BOOLEAN }

LoginTables ==
    UNION { { [k \in 1..n |-> [t[k] EXCEPT !.id = k]] :
                t \in { s \in [1..n -> LoginRows] :
                          \A i, j \in 1..n :
                              i < j => /\ s[i].email # s[j].email
                                       /\ s[i].username # s[j].username } } :
            n \in 0..Min(MaxLoginUsers, Cardinality(Emails)) }

LoginInit ==
    /\ users \in LoginTables
    /\ sent = <<>>
    /\ response = NoResponse
    /\ requests = <<>>

LoginNext == login

(***************************************************************************)
(* app/api/deps.py: the dependencies of the protected endpoints            *)
(*                                                                         *)
(* FastAPI resolves oauth2_scheme, get_current_user and                    *)
(* get_current_active_user before it calls the handler; an HTTPException   *)
(* raised by one of them is the response. The endpoints followed here are  *)
(* a reader of the current user (get_my_profile, get_user_tag_ratings), a  *)
(* writer (update_invest_token) and a reader of another table that has a   *)
(* 404 of its own (get_news_by_id).                                        *)
(*                                                                         *)
(* A string sent as a token is either a JWT the application issued, given  *)
(* by its claims (exp_in is 0 once it has expired), or another string,     *)
(* given by its text. Only create_access_token signs with SECRET_KEY, so a *)
(* string jwt.decode accepts carries a "sub" that is the str of a user id. *)
(***************************************************************************)

EmptyString == [raw |-> ""]
Garbage == [raw |-> "garbage"]

IssuedTokens ==
    { create_access_token(k, e) :
          k \in 1..(MaxLoginUsers + 1), e \in {0, ACCESS_TOKEN_EXPIRE_MINUTES} }

TokenStrings == {EmptyString, Garbage} \cup IssuedTokens

\* The cookie access_token of a request: <<>> when the request has none.
CookieValues == {<<>>} \cup {<<t>> : t \in TokenStrings}

\* The Authorization header of a request: <<>> when the request has none.
AuthorizationValues ==
    {<<>>} \cup {<<[scheme |-> "Bearer", param |-> t]>> : t \in TokenStrings}
           \cup {<<[scheme |-> "Basic", param |-> Garbage]>>}

\* A dependency raises an HTTPException or returns a value.
Raise(status, detail) == [raised |-> TRUE, status |-> status, detail |-> detail, value |-> 0]
Return(value) == [raised |-> FALSE, status |-> 0, detail |-> "", value |-> value]

\* OAuth2PasswordBearer.__call__: the parameter of a Bearer header.
OAuth2PasswordBearer(authorization) ==
    IF authorization = <<>> \/ authorization[1].scheme # "Bearer"
    THEN Raise(HTTP_401_UNAUTHORIZED, "Not authenticated")
    ELSE Return(authorization[1].param)

\* The header is looked at before the cookie.
OAuth2HeaderBeforeCookie(cookie, authorization) ==
    IF ~OAuth2PasswordBearer(authorization).raised
    THEN OAuth2PasswordBearer(authorization)
    ELSE IF cookie # <<>> /\ cookie[1] # EmptyString
    THEN Return(cookie[1])
    ELSE OAuth2PasswordBearer(authorization)

\* OAuth2PasswordBearerWithCookie.__call__: "if token" is false for no
\* cookie and for a cookie with the empty value.
oauth2_scheme(cookie, authorization) ==
    IF cookie # <<>> /\ cookie[1] # EmptyString
    THEN Return(cookie[1])
    ELSE OAuth2PasswordBearer(authorization)

\* verify_token: jwt.decode raises JWTError for a string that is no JWT of
\* this application and for an expired one.
verify_token(token) ==
    IF "sub" \in DOMAIN token /\ token.exp_in > 0
    THEN Return([user_id |-> token.sub])
    ELSE Raise(HTTP_401_UNAUTHORIZED, "Could not validate credentials")

\* db.query(User).filter(User.id == user_id).first(): the index of the row, 0 for None
query_user_by_id(rows, user_id) ==
    IF \E u \in DOMAIN rows : rows[u].id = user_id
    THEN CHOOSE u \in DOMAIN rows : rows[u].id = user_id
    ELSE 0

get_current_user(rows, token) ==
    IF token.raised THEN token
    ELSE LET token_data == verify_token(token.value)
         IN  IF token_data.raised THEN token_data
             ELSE IF query_user_by_id(rows, token_data.value.user_id) = 0
             THEN Raise(HTTP_404_NOT_FOUND, "User not found")
             ELSE Return(query_user_by_id(rows, token_data.value.user_id))

get_current_active_user(rows, current_user) ==
    IF current_user.raised THEN current_user
    ELSE IF ~rows[current_user.value].is_active
    THEN Raise(HTTP_400_BAD_REQUEST, "Inactive user")
    ELSE current_user

\* Depends(get_current_active_user) for the cookie and header of a request.
CurrentActiveUser(rows, cookie, authorization) ==
    get_current_active_user(rows,
        get_current_user(rows, oauth2_scheme(cookie, authorization)))

Credentials(cookie, authorization) == [cookie |-> cookie, authorization |-> authorization]

notDeps == <<dedupVars, raw_news, pipeVars, sent, requests, sandbox, calls>>

\* The HTTPException of a dependency is the response; the handler is not called.
Refused(op, dep, params) ==
    /\ response' = Response(op, dep.status, 0, params, dep.detail)
    /\ handled' = <<>>
    /\ UNCHANGED <<users, news_articles>>

\* The handler body runs with current_user.
Handler(op, current_user) == <<[op |-> op, current_user |-> current_user]>>

\* GET /api/auth/me
get_my_profile ==
    /\ Idle
    /\ \E cookie \in CookieValues, authorization \in AuthorizationValues :
        LET params == Credentials(cookie, authorization)
            dep == CurrentActiveUser(users, cookie, authorization)
        IN  /\ IF dep.raised
               THEN Refused("get_my_profile", dep, params)
               ELSE /\ response' = Response("get_my_profile", HTTP_200_OK, dep.value,
                                            params, users[dep.value])
                    /\ handled' = Handler("get_my_profile", dep.value)
                    /\ UNCHANGED <<users, news_articles>>
            /\ UNCHANGED notDeps

\* GET /api/users/me/tags
get_user_tag_ratings ==
    /\ Idle
    /\ \E cookie \in CookieValues, authorization \in AuthorizationValues :
        LET params == Credentials(cookie, authorization)
            dep == CurrentActiveUser(users, cookie, authorization)
        IN  /\ IF dep.raised
               THEN Refused("get_user_tag_ratings", dep, params)
               ELSE /\ response' =
                          Response("get_user_tag_ratings", HTTP_200_OK, dep.value, params,
                                   [tag_name \in TagNames |->
                                       users[dep.value][FIELD_MAP[tag_name]]])
                    /\ handled' = Handler("get_user_tag_ratings", dep.value)
                    /\ UNCHANGED <<users, news_articles>>
            /\ UNCHANGED notDeps

\* The values of InvestTokenUpdate.invest_token, a required str.
InvestTokenValues == {<<>>, <<"t">>}

\* PUT /api/auth/me/invest-token: update_user sets the one field and commits.
update_invest_token ==
    /\ Idle
    /\ \E cookie \in CookieValues, authorization \in AuthorizationValues,
       invest_token \in InvestTokenValues :
        LET params == Credentials(cookie, authorization)
            dep == CurrentActiveUser(users, cookie, authorization)
        IN  /\ IF dep.raised
               THEN Refused("update_invest_token", dep, params)
               ELSE LET user == [users[dep.value] EXCEPT !.invest_token = invest_token]
                    IN  /\ users' = [users EXCEPT ![dep.value] = user]
                        /\ response' = Response("update_invest_token", HTTP_200_OK,
                                                dep.value, params, user)
                        /\ handled' = Handler("update_invest_token", dep.value)
                        /\ UNCHANGED news_articles
            /\ UNCHANGED notDeps

\* GET /api/news/{news_id}
get_news_by_id ==
    /\ Idle
    /\ \E cookie \in CookieValues, authorization \in AuthorizationValues,
       news_id \in 1..(MaxNews + 1) :
        LET params == Credentials(cookie, authorization)
            dep == CurrentActiveUser(users, cookie, authorization)
        IN  /\ IF dep.raised
               THEN Refused("get_news_by_id", dep, params)
               ELSE /\ response' =
                          IF news_id \notin DOMAIN news_articles
                          THEN Response("get_news_by_id", HTTP_404_NOT_FOUND, dep.value,
                                        params, NoBody)
                          ELSE Response("get_news_by_id", HTTP_200_OK, dep.value,
                                        params, news_articles[news_id])
                    /\ handled' = Handler("get_news_by_id", dep.value)
                    /\ UNCHANGED <<users, news_articles>>
            /\ UNCHANGED notDeps

\* The response is returned to the client, and with it the request is over.
ResponseSent ==
    /\ ~Idle
    /\ response' = NoResponse
    /\ handled' = <<>>
    /\ calls' = <<>>
    /\ UNCHANGED <<dedupVars, tableVars, pipeVars, users, sent, requests, sandbox>>

\* The users of LoginTables and one article.
DepsInit ==
    /\ users \in LoginTables
    /\ news_articles = <<NewsArticleRow(ProcessedFull.fields, 1)>>
    /\ raw_news = <<>>
    /\ pipe_pc = "parked"
    /\ runs = 0
    /\ parsed_count = 0
    /\ db_errors = 0
    /\ LocalsInit
    /\ sent = <<>>
    /\ response = NoResponse
    /\ requests = <<>>
    /\ ProxyParked

DepsNext ==
    \/ get_my_profile
    \/ get_user_tag_ratings
    \/ update_invest_token
    \/ get_news_by_id
    \/ ResponseSent

(***************************************************************************)
(* app/api/routes/invest.py: the proxy to the brokerage sandbox            *)
(*                                                                         *)
(* The requests come from an authenticated, active user, as                *)
(* get_current_active_user returns one. A handler is followed call by call *)
(* to the brokerage: its run is the list of the calls it makes and the     *)
(* answer it gives when no call raises, and any one of the calls may raise *)
(* instead, which the handler answers with 500. Money is counted in tenths *)
(* of a rouble and compared exactly. What the brokerage does with an order *)
(* it accepted is not followed: sandbox.operations keeps, as a set, the    *)
(* account and the instrument of every order, which is what                *)
(* get_sandbox_operations reads.                                           *)
(***************************************************************************)

\* Accounts in a sandbox, roubles (in tenths) on an account.
MaxAccounts == 2
MaxRub == 12

HTTP_500_INTERNAL_SERVER_ERROR == 500

\* _float_to_quotation splits a float into units and nano.
NANO == 100000000

\* The floats u.d, as <<u, d>>, for which int((value - units) * 1_000_000_000)
\* is one less than d * 10^8: value - units is below d / 10 in binary.
OneNanoShort ==
    { <<1, 2>>, <<1, 4>>, <<1, 9>>, <<2, 3>>, <<2, 4>>, <<2, 8>>, <<2, 9>>,
      <<3, 3>>, <<3, 4>>, <<3, 8>>, <<3, 9>> }

\* _float_to_quotation(value), value in tenths and not negative.
float_to_quotation(value) ==
    LET units == value \div 10
        tenth == value % 10
    IN  [ units |-> units,
          nano |-> IF <<units, tenth>> \in OneNanoShort
                   THEN tenth * NANO - 1 ELSE tenth * NANO ]

\* An instrument of the brokerage; last_price is <<>> when it has none.
Instrument(figi, ticker, trading_status, sell_available_flag, lot, last_price) ==
    [ figi |-> figi, ticker |-> ticker, trading_status |-> trading_status,
      buy_available_flag |-> TRUE, sell_available_flag |-> sell_available_flag,
      lot |-> lot, last_price |-> last_price, currency |-> "rub" ]

NORMAL_TRADING == "SECURITY_TRADING_STATUS_NORMAL_TRADING"
NOT_AVAILABLE == "SECURITY_TRADING_STATUS_NOT_AVAILABLE_FOR_TRADING"

\* The shares the brokerage lists: T alone, and T, closed for trading,
\* next to TT, whose ticker holds "T" as well.
Markets ==
    { <<Instrument("F1", <<"T">>, NORMAL_TRADING, TRUE, 1, <<10>>)>>,
      <<Instrument("F1", <<"T">>, NORMAL_TRADING, TRUE, 2, <<10>>)>>,
      <<Instrument("F1", <<"T">>, NORMAL_TRADING, TRUE, 1, <<>>)>>,
      <<Instrument("F1", <<"T">>, NOT_AVAILABLE, TRUE, 1, <<10>>)>>,
      <<Instrument("F1", <<"T">>, NORMAL_TRADING, FALSE, 1, <<10>>)>>,
      <<Instrument("F1", <<"T">>, NOT_AVAILABLE, TRUE, 1, <<10>>),
        Instrument("F2", <<"T", "T">>, NORMAL_TRADING, TRUE, 1, <<10>>)>> }

\* A sandbox account: its roubles and the shares of F1 it holds.
Account(id, rub, held) == [id |-> id, rub |-> rub, held |-> held]

A1 == <<"a", "1">>
A2 == <<"a", "2">>
A3 == <<"a", "3">>
ZZ == <<"z", "z">>

AccountIds == <<A1, A2, A3>>

\* The account the brokerage opens next: the first id not in use.
NextAccountId(sb) ==
    AccountIds[CHOOSE k \in DOMAIN AccountIds :
                   /\ \A a \in DOMAIN sb.accounts : sb.accounts[a].id # AccountIds[k]
                   /\ \A j \in 1..(k - 1) :
                         \E a \in DOMAIN sb.accounts : sb.accounts[a].id = AccountIds[j]]

\* The position of the account with this id, 0 when the brokerage has none.
AccountById(sb, id) ==
    IF \E a \in DOMAIN sb.accounts : sb.accounts[a].id = id
    THEN CHOOSE a \in DOMAIN sb.accounts : sb.accounts[a].id = id
    ELSE 0

InstrumentByFigi(sb, figi) ==
    sb.instruments[CHOOSE k \in DOMAIN sb.instruments : sb.instruments[k].figi = figi]

\* client.instruments.find_instrument(query): the instruments whose ticker
\* holds the query, in an order the brokerage chooses.
find_instrument(sb, query) ==
    LET hits == {k \in DOMAIN sb.instruments : Contains(sb.instruments[k].ticker, query)}
    IN  IF hits = {} THEN {<<>>}
        ELSE { <<sb.instruments[k]>> \o
                   [j \in 1..(Cardinality(hits) - 1) |->
                       sb.instruments[CHOOSE h \in hits \ {k} : TRUE]] : k \in hits }

\* One call to the brokerage.
Call(method, args) == [method |-> method, args |-> args]

\* The run of a handler: its calls, its answer, and the sandbox afterwards.
Outcome(made, status, body, sb) ==
    [calls |-> made, status |-> status, body |-> body, sandbox |-> sb]

\* The call in position k raises: except Exception answers 500.
Raised(made, k, sb) ==
    Outcome(SubSeq(made, 1, k), HTTP_500_INTERNAL_SERVER_ERROR,
            "An error occurred with Tinkoff API", sb)

\* Every user may use every endpoint.
InvestTokenNotRequired(current_user) == Return(current_user)

\* get_current_user_with_invest_token
get_current_user_with_invest_token(current_user) ==
    IF ~Truthy(current_user.invest_token)
    THEN Raise(HTTP_400_BAD_REQUEST, "Tinkoff API token is not configured for the user.")
    ELSE Return(current_user)

\* "if not target_account_id": the accounts are asked for when the query
\* parameter is missing or empty.
AccountCalls(account_id) ==
    IF ~Truthy(account_id) THEN <<Call("get_sandbox_accounts", <<>>)>> ELSE <<>>

NoAccount(sb, account_id) == ~Truthy(account_id) /\ sb.accounts = <<>>

TargetAccountId(sb, account_id) ==
    IF ~Truthy(account_id) THEN sb.accounts[1].id ELSE account_id

\* The values of the query parameter account_id: missing, an account of
\* the sandbox, no account of the sandbox; and, for one endpoint, empty.
AccountIdValues == {NULL, A1, ZZ}

notInvest == <<dedupVars, tableVars, pipeVars, users, sent, requests>>

\* The dependency of every endpoint of the sandbox router raises for the
\* user u: the handler is not called, whatever the request holds.
InvestRefused(op, u) ==
    /\ u \in DOMAIN users
    /\ users[u].is_active
    /\ get_current_user_with_invest_token(users[u]).raised
    /\ response' = Response(op, get_current_user_with_invest_token(users[u]).status,
                            u, <<>>, get_current_user_with_invest_token(users[u]).detail)
    /\ handled' = <<>>
    /\ calls' = <<>>
    /\ UNCHANGED sandbox
    /\ UNCHANGED notInvest

\* The handler of an endpoint of the sandbox router runs for the user u:
\* failAt is the position of the call that raises, 0 when none does.
InvestHandled(op, u, params, run, failAt) ==
    /\ u \in DOMAIN users
    /\ users[u].is_active
    /\ ~get_current_user_with_invest_token(users[u]).raised
    /\ failAt <= Len(run.calls)
    /\ Len(run.sandbox.accounts) <= MaxAccounts
    /\ \A a \in DOMAIN run.sandbox.accounts : run.sandbox.accounts[a].rub <= MaxRub
    /\ LET out == IF failAt = 0 THEN run ELSE Raised(run.calls, failAt, sandbox)
       IN  /\ response' = Response(op, out.status, u, params, out.body)
           /\ calls' = out.calls
           /\ sandbox' = out.sandbox
    /\ handled' = Handler(op, u)
    /\ UNCHANGED notInvest

(* ---- POST /sandbox/topup ----------------------------------------------- *)

\* Amounts in whole roubles (gt=0), so that units and nano are exact.
TopUpAmounts == {10}

top_up_run(sb, amount, account_id) ==
    LET made == AccountCalls(account_id)
    IN  IF NoAccount(sb, account_id)
        THEN Outcome(made, HTTP_404_NOT_FOUND, "No sandbox accounts found.", sb)
        ELSE LET target_account_id == TargetAccountId(sb, account_id)
                 a == AccountById(sb, target_account_id)
                 pay_in == made \o <<Call("sandbox_pay_in",
                                          [account_id |-> target_account_id,
                                           amount |-> float_to_quotation(amount)])>>
             IN  IF a = 0 THEN Raised(pay_in, Len(pay_in), sb)
                 ELSE Outcome(pay_in, HTTP_200_OK,
                              [account_id |-> target_account_id,
                               new_balance |-> sb.accounts[a].rub + amount],
                              [sb EXCEPT !.accounts[a].rub = @ + amount])

top_up_sandbox_account ==
    /\ Idle
    /\ \E u \in DOMAIN users :
          \/ InvestRefused("top_up_sandbox_account", u)
          \/ \E amount \in TopUpAmounts, account_id \in AccountIdValues, failAt \in 0..2 :
                 InvestHandled("top_up_sandbox_account", u,
                               [amount |-> amount, account_id |-> account_id],
                               top_up_run(sandbox, amount, account_id), failAt)

(* ---- GET /sandbox/balance ---------------------------------------------- *)

balance_run(sb, account_id) ==
    LET made == AccountCalls(account_id)
    IN  IF NoAccount(sb, account_id)
        THEN Outcome(made, HTTP_404_NOT_FOUND, "No sandbox accounts found.", sb)
        ELSE LET target_account_id == TargetAccountId(sb, account_id)
                 a == AccountById(sb, target_account_id)
                 portfolio == made \o <<Call("get_sandbox_portfolio",
                                             [account_id |-> target_account_id])>>
             IN  IF a = 0 THEN Raised(portfolio, Len(portfolio), sb)
                 ELSE Outcome(portfolio, HTTP_200_OK,
                              [account_id |-> target_account_id,
                               balance |-> sb.accounts[a].rub], sb)

get_sandbox_balance ==
    /\ Idle
    /\ \E u \in DOMAIN users :
          \/ InvestRefused("get_sandbox_balance", u)
          \/ \E account_id \in AccountIdValues \cup {<<>>}, failAt \in 0..2 :
                 InvestHandled("get_sandbox_balance", u, [account_id |-> account_id],
                               balance_run(sandbox, account_id), failAt)

(* ---- POST, GET and DELETE /sandbox/accounts ---------------------------- *)

open_run(sb) ==
    Outcome(<<Call("open_sandbox_account", <<>>)>>, HTTP_200_OK,
            [account_id |-> NextAccountId(sb)],
            [sb EXCEPT !.accounts = Append(@, Account(NextAccountId(sb), 0, 0))])

open_sandbox_account ==
    /\ Idle
    /\ \E u \in DOMAIN users :
          \/ InvestRefused("open_sandbox_account", u)
          \/ \E failAt \in 0..1 :
                 /\ Len(sandbox.accounts) < MaxAccounts
                 /\ InvestHandled("open_sandbox_account", u, <<>>, open_run(sandbox),
                                  failAt)

accounts_run(sb) ==
    Outcome(<<Call("get_sandbox_accounts", <<>>)>>, HTTP_200_OK,
            [a \in DOMAIN sb.accounts |-> [id |-> sb.accounts[a].id]], sb)

get_sandbox_accounts ==
    /\ Idle
    /\ \E u \in DOMAIN users :
          \/ InvestRefused("get_sandbox_accounts", u)
          \/ \E failAt \in 0..1 :
                 InvestHandled("get_sandbox_accounts", u, <<>>, accounts_run(sandbox),
                               failAt)

\* A list without its element in position k.
Without(s, k) == [j \in 1..(Len(s) - 1) |-> IF j < k THEN s[j] ELSE s[j + 1]]

close_run(sb, account_id) ==
    LET made == <<Call("close_sandbox_account", [account_id |-> account_id])>>
        a == AccountById(sb, account_id)
    IN  IF a = 0 THEN Raised(made, 1, sb)
        ELSE Outcome(made, HTTP_200_OK, "closed",
                     [sb EXCEPT !.accounts = Without(@, a)])

close_sandbox_account ==
    /\ Idle
    /\ \E u \in DOMAIN users :
          \/ InvestRefused("close_sandbox_account", u)
          \/ \E account_id \in {A1, A2, ZZ}, failAt \in 0..1 :
                 InvestHandled("close_sandbox_account", u, [account_id |-> account_id],
                               close_run(sandbox, account_id), failAt)

(* ---- POST /sandbox/orders ---------------------------------------------- *)

\* SandboxOrderRequest: price is <<>> when the request has none, and else
\* the float, in tenths.
Payload(ticker, quantity, price, direction) ==
    [ticker |-> ticker, quantity |-> quantity, price |-> price, direction |-> direction]

\* "if payload.price": false for no price and for the price 0.
PriceTruthy(price) == price # <<>> /\ price[1] # 0

\* The order handed to client.sandbox.post_sandbox_order.
Order(figi, quantity, account_id, direction, price) ==
    [ figi |-> figi, quantity |-> quantity, account_id |-> account_id,
      direction |-> direction,
      order_type |-> IF PriceTruthy(price) THEN "ORDER_TYPE_LIMIT" ELSE "ORDER_TYPE_MARKET",
      price |-> IF PriceTruthy(price) THEN <<float_to_quotation(price[1])>> ELSE <<>> ]

\* The balance check of a buy, from the call of get_sandbox_positions on:
\* the calls added, and the detail of the refusal, "" when there is none.
\* order_cost is compared after multiplication by 100, 1.05 being 105 / 100.
BuyCheck(sb, payload, a, instrument) ==
    LET rub_balance == sb.accounts[a].rub
        positions == <<Call("get_sandbox_positions", [account_id |-> sb.accounts[a].id])>>
        prices == positions \o <<Call("get_last_prices", [figi |-> instrument.figi])>>
    IN  IF PriceTruthy(payload.price)
        THEN [ calls |-> positions,
               detail |-> IF rub_balance * 100 <
                               payload.price[1] * payload.quantity * instrument.lot * 100
                          THEN "Insufficient funds." ELSE "" ]
        ELSE IF instrument.last_price = <<>>
        THEN [calls |-> prices, detail |-> "Could not get market price."]
        ELSE [ calls |-> prices,
               detail |-> IF rub_balance * 100 <
                               instrument.last_price[1] * 105 * payload.quantity * instrument.lot
                          THEN "Insufficient funds." ELSE "" ]

\* The check of a sell: the position in the instrument and its balance.
SellCheck(sb, payload, a, instrument) ==
    LET held == IF instrument.figi = "F1" THEN sb.accounts[a].held ELSE 0
        positions == <<Call("get_sandbox_positions", [account_id |-> sb.accounts[a].id])>>
    IN  [ calls |-> positions,
          detail |-> IF held = 0 THEN "You do not own any shares to sell."
                     ELSE IF held < payload.quantity * instrument.lot
                     THEN "Insufficient shares to sell." ELSE "" ]

\* post_sandbox_order with the answer found of find_instrument.
order_run(sb, payload, account_id, found) ==
    LET accounts == AccountCalls(account_id)
        shares == accounts \o <<Call("shares", [instrument_status |-> "BASE"])>>
        find == shares \o <<Call("find_instrument", [query |-> payload.ticker])>>
    IN  IF NoAccount(sb, account_id)
        THEN Outcome(accounts, HTTP_404_NOT_FOUND, "No sandbox accounts found.", sb)
        ELSE IF ~\E k \in DOMAIN sb.instruments : sb.instruments[k].ticker = payload.ticker
        THEN Outcome(shares, HTTP_404_NOT_FOUND, "Instrument does not exist.", sb)
        ELSE IF found = <<>>
        THEN Outcome(find, HTTP_404_NOT_FOUND, "Instrument not found.", sb)
        ELSE
        LET target_account_id == TargetAccountId(sb, account_id)
            a == AccountById(sb, target_account_id)
            figi == found[1].figi
            instrument == InstrumentByFigi(sb, figi)
            details == find \o <<Call("get_instrument_by", [id |-> figi])>>
            is_tradable == /\ instrument.trading_status = NORMAL_TRADING
                           /\ instrument.buy_available_flag
                           /\ instrument.sell_available_flag
            positions == details \o <<Call("get_sandbox_positions",
                                           [account_id |-> target_account_id])>>
        IN  IF ~is_tradable
            THEN Outcome(details, HTTP_400_BAD_REQUEST, "Not available for trading now.", sb)
            ELSE IF a = 0
            THEN Raised(positions, Len(positions), sb)
            ELSE
            LET check == IF payload.direction = "buy"
                         THEN BuyCheck(sb, payload, a, instrument)
                         ELSE SellCheck(sb, payload, a, instrument)
                order == Order(figi, payload.quantity, target_account_id,
                               payload.direction, payload.price)
            IN  IF check.detail # ""
                THEN Outcome(details \o check.calls, HTTP_400_BAD_REQUEST, check.detail, sb)
                ELSE Outcome(details \o check.calls \o <<Call("post_sandbox_order", order)>>,
                             HTTP_200_OK, "Order placed successfully.",
                             [sb EXCEPT !.operations =
                                 @ \cup {[account_id |-> target_account_id, figi |-> figi]}])

\* The values of the request: a listed ticker and one that is not, one and
\* two lots, no price and the prices 0.0, 1.0 and 1.2.
TickerValues == {<<"T">>, <<"X">>}
QuantityValues == {1, 2}
PriceValues == {<<>>, <<0>>, <<10>>, <<12>>}
DirectionValues == {"buy", "sell"}

\* The calls of the longest run of post_sandbox_order.
ORDER_CALLS == 7

post_sandbox_order ==
    /\ Idle
    /\ \E u \in DOMAIN users :
          \/ InvestRefused("post_sandbox_order", u)
          \/ \E ticker \in TickerValues, quantity \in QuantityValues,
                price \in PriceValues, direction \in DirectionValues,
                account_id \in AccountIdValues, failAt \in 0..ORDER_CALLS :
                 \E found \in find_instrument(sandbox, ticker) :
                     InvestHandled("post_sandbox_order", u,
                                   [ payload |-> Payload(ticker, quantity, price, direction),
                                     account_id |-> account_id ],
                                   order_run(sandbox,
                                             Payload(ticker, quantity, price, direction),
                                             account_id, found),
                                   failAt)

(* ---- GET /sandbox/tradable-shares -------------------------------------- *)

\* The shares that pass the first filter, in the order of the list.
potentially_tradable(sb) ==
    { k \in DOMAIN sb.instruments :
          /\ sb.instruments[k].trading_status = NORMAL_TRADING
          /\ sb.instruments[k].buy_available_flag
          /\ sb.instruments[k].sell_available_flag
          /\ sb.instruments[k].currency = "rub" }

\* The tickers of the shares of the set that have a last price.
tradable_shares(sb, ks) ==
    { sb.instruments[k].ticker : k \in {j \in ks : sb.instruments[j].last_price # <<>>} }

\* A failure of get_last_prices is passed over: the answer is the empty list.
tradable_run(sb, pricesFail) ==
    LET shares == <<Call("shares", [instrument_status |-> "BASE"])>>
        ks == potentially_tradable(sb)
    IN  IF ks = {} THEN Outcome(shares, HTTP_200_OK, {}, sb)
        ELSE Outcome(shares \o <<Call("get_last_prices", [figi |-> ks])>>, HTTP_200_OK,
                     IF pricesFail THEN {} ELSE tradable_shares(sb, ks), sb)

get_tradable_shares ==
    /\ Idle
    /\ \E u \in DOMAIN users :
          \/ InvestRefused("get_tradable_shares", u)
          \/ \E failAt \in 0..1, pricesFail \in BOOLEAN :
                 InvestHandled("get_tradable_shares", u, <<>>,
                               tradable_run(sandbox, pricesFail), failAt)

(* ---- GET /sandbox/operations ------------------------------------------- *)

\* The operations of an account: here, the orders placed on it.
operations_of(sb, account_id) ==
    {op \in sb.operations : op.account_id = account_id}

operations_run(sb, account_id, format) ==
    LET accounts == AccountCalls(account_id)
    IN  IF NoAccount(sb, account_id)
        THEN Outcome(accounts, HTTP_404_NOT_FOUND, "No sandbox accounts found.", sb)
        ELSE LET target_account_id == TargetAccountId(sb, account_id)
                 operations == operations_of(sb, target_account_id)
                 get == accounts \o <<Call("get_operations",
                                           [account_id |-> target_account_id])>>
                 shares == get \o <<Call("shares", [instrument_status |-> "ALL"])>>
             IN  IF AccountById(sb, target_account_id) = 0
                 THEN Raised(get, Len(get), sb)
                 ELSE IF operations = {}
                 THEN Outcome(get, HTTP_200_OK, {}, sb)
                 ELSE IF format = "tickers"
                 THEN Outcome(shares, HTTP_200_OK,
                              {InstrumentByFigi(sb, op.figi).ticker : op \in operations},
                              sb)
                 ELSE Outcome(shares, HTTP_200_OK,
                              { [ticker |-> InstrumentByFigi(sb, op.figi).ticker] :
                                    op \in operations },
                              sb)

get_sandbox_operations ==
    /\ Idle
    /\ \E u \in DOMAIN users :
          \/ InvestRefused("get_sandbox_operations", u)
          \/ \E account_id \in AccountIdValues, format \in {"full", "tickers"},
                failAt \in 0..3 :
                 InvestHandled("get_sandbox_operations", u,
                               [account_id |-> account_id, format |-> format],
                               operations_run(sandbox, account_id, format), failAt)

(* ---- the users and the sandbox of the requests ------------------------- *)

\* Three users as create_user and update_invest_token leave them: one with
\* an invest_token, one without, one whose invest_token is the empty string.
InvestUsers ==
    << [NewUser(1, "a@x", "ann", get_password_hash("pw1")) EXCEPT !.invest_token = <<"t">>],
       NewUser(2, "b@x", "bob", get_password_hash("pw1")),
       [NewUser(3, "c@x", "cat", get_password_hash("pw1")) EXCEPT !.invest_token = <<>>] >>

InvestInit ==
    /\ users = InvestUsers
    /\ sent = <<>>
    /\ response = NoResponse
    /\ requests = <<>>
    /\ handled = <<>>
    /\ calls = <<>>
    /\ \E market \in Markets, accounts \in {<<>>} \cup
                                  {<<Account(A1, rub, held)>> : rub \in {0, 12}, held \in {0, 2}} :
          sandbox = [accounts |-> accounts, instruments |-> market, operations |-> {}]

InvestNext ==
    \/ top_up_sandbox_account
    \/ get_sandbox_balance
    \/ open_sandbox_account
    \/ get_sandbox_accounts
    \/ close_sandbox_account
    \/ post_sandbox_order
    \/ get_tradable_shares
    \/ get_sandbox_operations
    \/ ResponseSent

(***************************************************************************)
(* app/api/routes/recommendations.py                                       *)
(*                                                                         *)
(* POST /recommendations/news/{news_id}. What the handler collects about   *)
(* the user goes into the prompt, so the request to the LLM is recorded in *)
(* calls with the user_context it was built from. The answer of the LLM is *)
(* taken to be a JSON object whose confidence and quantity are numbers, as *)
(* the prompt asks for.                                                    *)
(***************************************************************************)

\* TAG_MAP.items(): the fields in the order of the dict.
TAG_ITEMS ==
    << "tag_energy", "tag_finance", "tag_tech", "tag_industry",
       "tag_consumer_sector", "tag_infrastructure", "tag_agriculture",
       "tag_healthcare", "tag_real_estate", "tag_materials", "tag_telecom",
       "tag_entertainment", "tag_education", "tag_ecommerce" >>

\* A slip in the second comparison: neutral from 0 instead of from -1.
PreferenceNeutralFromZero(score) ==
    IF score >= 3 THEN "loved_tags"
    ELSE IF 0 <= score /\ score <= 2 THEN "neutral_tags"
    ELSE "unloved_tags"

\* if score >= 3 / elif -1 <= score <= 2 / else: the list tag_name goes to.
preference(score) ==
    IF score >= 3 THEN "loved_tags"
    ELSE IF (0 - 1) <= score /\ score <= 2 THEN "neutral_tags"
    ELSE "unloved_tags"

\* One of loved_tags, neutral_tags, unloved_tags after the loop over TAG_MAP.
tags_in(user, list) ==
    LET Goes(field) == preference(user[field]) = list
        fields == SelectSeq(TAG_ITEMS, Goes)
    IN  [k \in DOMAIN fields |-> TAG_MAP[fields[k]]]

\* [t.strip() for t in current_user.tickers.split(',')] if current_user.tickers else []
favorite_tickers(user) ==
    IF Truthy(user.tickers)
    THEN LET parts == Split(user.tickers) IN [k \in DOMAIN parts |-> Strip(parts[k])]
    ELSE <<>>

\* What GET {INVEST_API_URL}/sandbox/operations can give: a RequestException,
\* no operations, one operation.
OperationsAnswers ==
    { [raised |-> TRUE, operations |-> <<>>],
      [raised |-> FALSE, operations |-> <<>>],
      [raised |-> FALSE, operations |-> <<[type |-> "buy", ticker |-> <<"T">>]>>] }

\* _get_user_trade_operations(user): its request, if any, and its result.
get_user_trade_operations(user, answer) ==
    IF ~Truthy(user.invest_token)
    THEN [calls |-> <<>>, operations |-> <<>>]
    ELSE [calls |-> <<Call("sandbox/operations", [token |-> user.invest_token])>>,
          operations |-> IF answer.raised THEN <<>> ELSE answer.operations]

\* A parsed JSON object: its keys, and the values of those keys.
Dict(keys, action, ticker, confidence, quantity) ==
    [ none |-> FALSE, keys |-> keys,
      values |-> [action |-> action, ticker |-> ticker, confidence |-> confidence,
                  quantity |-> quantity, reasoning |-> "reasoning"] ]

\* What _generate_llm_json_response returns: None, or the parsed object.
LlmAnswers ==
    { [Dict({}, "", <<>>, 0, 0) EXCEPT !.none = TRUE],
      Dict({}, "", <<>>, 0, 0),
      Dict({"action", "ticker", "confidence", "quantity", "reasoning"}, "buy", <<"T">>, 85, 5),
      Dict({"action", "ticker"}, "SELL", <<"T">>, 0, 0),
      Dict({"action", "ticker", "quantity"}, "wait", <<"T">>, 0, 1),
      Dict({"confidence"}, "", <<>>, 10, 0) }

\* llm_data.get(key, default)
DictGet(d, key, default) == IF key \in d.keys THEN d.values[key] ELSE default

\* str.lower() on the actions of LlmAnswers.
Lower(word) == IF word = "SELL" THEN "sell" ELSE word

\* RecommendationResponse(...) of the answer.
RecommendationResponse(llm_data) ==
    LET given  == Lower(DictGet(llm_data, "action", "hold"))
        action == IF given \notin {"buy", "sell", "hold"} THEN "hold" ELSE given
        buy    == action = "buy"
        sell   == action = "sell"
    IN  [ buy |-> buy, sell |-> sell,
          confidence |-> DictGet(llm_data, "confidence", 0),
          reasoning |-> DictGet(llm_data, "reasoning", "no information"),
          ticker |-> IF buy \/ sell THEN DictGet(llm_data, "ticker", NULL) ELSE NULL,
          quantity |-> DictGet(llm_data, "quantity", 0) ]

\* The user_context of the prompt.
user_context(user, operations) ==
    [ loved_tags |-> tags_in(user, "loved_tags"),
      neutral_tags |-> tags_in(user, "neutral_tags"),
      unloved_tags |-> tags_in(user, "unloved_tags"),
      favorite_tickers |-> favorite_tickers(user),
      operations |-> operations ]

get_recommendation_for_news ==
    /\ Idle
    /\ \E u \in DOMAIN users, news_id \in 1..(Len(news_articles) + 1),
          answer \in OperationsAnswers, llm_data \in LlmAnswers :
           /\ users[u].is_active
           /\ handled' = <<[op |-> "get_recommendation_for_news", current_user |-> u]>>
           /\ IF news_id \notin DOMAIN news_articles
              THEN /\ response' = Response("get_recommendation_for_news",
                                           HTTP_404_NOT_FOUND, u, [news_id |-> news_id], <<>>)
                   /\ calls' = <<>>
              ELSE LET trades == get_user_trade_operations(users[u], answer)
                       prompt == [news_article |-> news_articles[news_id],
                                  user_context |-> user_context(users[u], trades.operations)]
                   IN  /\ calls' = trades.calls \o <<Call("chat/completions", prompt)>>
                       /\ response' =
                              IF llm_data.none \/ llm_data.keys = {}
                              THEN Response("get_recommendation_for_news",
                                            HTTP_500_INTERNAL_SERVER_ERROR, u,
                                            [news_id |-> news_id], <<>>)
                              ELSE Response("get_recommendation_for_news", HTTP_200_OK, u,
                                            [news_id |-> news_id],
                                            RecommendationResponse(llm_data))
    /\ UNCHANGED <<dedupVars, tableVars, pipeVars, users, sent, requests, sandbox>>

\* Bound: the scores of the user the requests start from.
MaxPreference == 3

\* One user after some likes and dislikes, with or without favourite ticker
\* and invest_token, and one stored article.
RecommendInit ==
    /\ \E finance \in (0 - MaxPreference)..MaxPreference,
          tech \in (0 - MaxPreference)..MaxPreference,
          tickers \in {NULL, <<"T">>}, invest_token \in {NULL, <<"t">>} :
           users = <<[NewUser(1, "a@x", "ann", <<"bcrypt", "pw1">>) EXCEPT
                         !.tag_finance = finance, !.tag_tech = tech,
                         !.tickers = tickers, !.invest_token = invest_token]>>
    /\ sent = <<[f \in TagFields |-> users[1][f]]>>
    /\ response = NoResponse
    /\ requests = <<>>
    /\ handled = <<>>
    /\ calls = <<>>
    /\ sandbox = NoSandbox
    /\ raw_news = <<>>
    /\ news_articles = <<NewsArticleRow(ProcessedFull.fields, 1)>>
    /\ pipe_pc = "parked"
    /\ runs = 0
    /\ parsed_count = 0
    /\ db_errors = 0
    /\ LocalsInit

RecommendNext ==
    \/ like_news
    \/ dislike_news
    \/ read_news
    \/ get_recommendation_for_news
    \/ ResponseSent

(***************************************************************************)
(* Specifications                                                          *)
(***************************************************************************)

InitDedup == DedupInit /\ PipeParked /\ ApiParked

SpecDedup == InitDedup /\ [][DedupNext]_vars

InitPipeline == PipeInit /\ DedupParked /\ ApiParked

SpecPipeline == InitPipeline /\ [][PipeNext]_vars

InitNews == NewsInit /\ ProxyParked /\ DedupParked /\ PipeParked

SpecNews == InitNews /\ [][NewsNext]_vars

InitAuth == AuthInit /\ ProxyParked /\ DedupParked /\ PipeParked

SpecAuth == InitAuth /\ [][AuthNext]_vars

InitLogin == LoginInit /\ ProxyParked /\ DedupParked /\ PipeParked

SpecLogin == InitLogin /\ [][LoginNext]_vars

InitDeps == DepsInit /\ DedupParked

SpecDeps == InitDeps /\ [][DepsNext]_vars

InitInvest == InvestInit /\ DedupParked /\ PipeParked

SpecInvest == InitInvest /\ [][InvestNext]_vars

InitRecommend == RecommendInit /\ DedupParked

SpecRecommend == InitRecommend /\ [][RecommendNext]_vars

(***************************************************************************)
(* Properties of run_all_parsers_and_process                               *)
(***************************************************************************)

\* The items of the current run that have been sent to the LLM and answered.
SentToLlm == {deduplicated_news[k] : k \in 1..(llm_idx - 1)}

\* A raw_news row with this title and text was committed in the current run.
CommittedThisRun(it) ==
    \E r \in (raw_at_start + 1)..Len(raw_news) :
        raw_news[r].title = it.title /\ raw_news[r].full_text = it.full_text

(* C1: within one run the stages are ordered per item: an item is sent to    *)
(* the LLM only after it passed check_duplicate_in_raw_news and was          *)
(* committed to raw_news in this run and, when deduplicate_news_with_annoy   *)
(* returned, was kept by it; and a NewsArticle row is written only after     *)
(* the LLM answer for that item parsed to a JSON object.                     *)
C1_StagesOrdered ==
    /\ pipe_pc = "llm" =>
          \A it \in SentToLlm :
              /\ it \in passed_check
              /\ CommittedThisRun(it)
              /\ ml_returned.returned => it \in Range(ml_returned.value)
    /\ last_llm.saved => last_llm.outcome = "value"

\* The first 20 characters of a stored text.
First20(text) == [k \in 1..(IF Len(text) < 20 THEN Len(text) ELSE 20) |-> text[k]]

(* C2: as long as no database call has failed, raw_news holds no two rows    *)
(* with the same title and the same first 20 characters of full_text (the    *)
(* empty text has the empty prefix), whatever the parsers returned, also     *)
(* the same item twice in one run, from one parser or from two.              *)
C2_NoDuplicateRawNews ==
    db_errors = 0 =>
        \A i, j \in DOMAIN raw_news :
            i < j => ~(/\ raw_news[i].title = raw_news[j].title
                       /\ First20(raw_news[i].full_text) = First20(raw_news[j].full_text))

\* A second run that skipped an item whose row an earlier run stored.
C2_Witness ==
    /\ db_errors = 0
    /\ runs = 2
    /\ raw_at_start >= 1
    /\ total_skipped >= 1
    /\ Len(raw_news) >= 1

(***************************************************************************)
(* Properties of deduplicate_news_with_annoy                               *)
(***************************************************************************)

\* The indices of the articles a finished call returned.
Retained == {i \in 1..Len(articles) : i \notin duplicate_indices}

\* The neighbours other than i itself that the index returned for i.
NonSelfNeighbours(i) == Range(get_nns_by_item(embeddings, i, NNS_K)) \ {i}

(* C3: in the list a finished call returns, no retained article has among   *)
(* the non-self neighbours the index returned for it another retained       *)
(* article whose cosine similarity to it is strictly above the threshold.   *)
C3_NoSimilarRetainedNeighbour ==
    (dedup_pc = "done" /\ Len(articles) > 0) =>
        \A i \in Retained : \A k \in NonSelfNeighbours(i) \cap Retained :
            ~(cos_sim(embeddings[i], embeddings[k]) > threshold)

\* s is t with some elements left out: the greedy left-to-right match.
RECURSIVE IsSubsequence(_, _)
IsSubsequence(s, t) ==
    IF Len(s) = 0 THEN TRUE
    ELSE IF Len(t) = 0 THEN FALSE
    ELSE IF Head(s) = Head(t) THEN IsSubsequence(Tail(s), Tail(t))
    ELSE IsSubsequence(s, Tail(t))

Occurrences(s, x) == Cardinality({k \in DOMAIN s : s[k] = x})

(* C4: a finished call returns a subsequence of its input: input articles,   *)
(* unmodified, in input order, none more often than in the input, and the    *)
(* empty list for the empty input.                                           *)
C4_ReturnsSubsequence ==
    dedup_pc = "done" =>
        /\ IsSubsequence(cleaned_articles, articles)
        /\ \A a \in Range(cleaned_articles) :
              /\ a \in Range(articles)
              /\ Occurrences(cleaned_articles, a) <= Occurrences(articles, a)
        /\ (Len(articles) = 0 => cleaned_articles = <<>>)

\* A call that dropped an article from between two different kept ones.
C4_Witness ==
    /\ dedup_pc = "done"
    /\ Len(cleaned_articles) >= 2
    /\ Len(cleaned_articles) < Len(articles)
    /\ \E i, j, k \in 1..Len(articles) :
          /\ i < j /\ j < k
          /\ i \notin duplicate_indices /\ j \in duplicate_indices /\ k \notin duplicate_indices
          /\ articles[i] # articles[k]


(***************************************************************************)
(* Properties of the tag scores and of GET /api/news                       *)
(***************************************************************************)

(* C5: every tag score of a user is its initial value 0 plus the likes minus *)
(* the dislikes the user sent for articles whose comma-separated tags hold   *)
(* that tag, so a request moves only the scores of the tags its article      *)
(* carries, by one each; and a request for an unknown news_id is answered    *)
(* 404 and moves no score.                                                   *)
C5_ScoresCountRequests ==
    /\ \A u \in DOMAIN users : \A f \in TagFields : users[u][f] = 0 + sent[u][f]
    /\ (/\ response.op \in {"like_news", "dislike_news"}
        /\ response.params.news_id \notin DOMAIN news_articles)
           => response.status = HTTP_404_NOT_FOUND

\* The article carries a tag the user scores at -1 or higher.
CarriesInterestingTag(user, row) ==
    \E f \in TagFields : user[f] >= 0 - 1 /\ TAG_MAP[f] \in Entries(row.tags)

\* The article mentions one of the user's favourite tickers.
MentionsFavouriteTicker(user, row) ==
    (Entries(user.tickers) \ {<<>>}) \cap Entries(row.tickers) # {}

\* The request being answered is a GET /api/news that succeeded.
NewsAnswered == response.op = "read_news" /\ response.status = HTTP_200_OK

(* C6: with filter=true, GET /api/news never returns an article that carries *)
(* none of the tags the user scores at -1 or higher and mentions none of the *)
(* user's favourite tickers, whatever the user's scores and tickers are.     *)
C6_FilterReturnsOnlyInterests ==
    (NewsAnswered /\ response.params.filter) =>
        \A k \in DOMAIN response.body :
            \/ CarriesInterestingTag(users[response.user], news_articles[response.body[k]])
            \/ MentionsFavouriteTicker(users[response.user], news_articles[response.body[k]])

\* One of the requested values is an entry of the comma-separated column.
HasEntryOf(column, requested) == Range(requested) \cap Entries(column) # {}

\* The articles that satisfy every filter the request supplied.
SatisfyEveryFilter ==
    {i \in DOMAIN news_articles :
        /\ response.params.filter =>
              \/ CarriesInterestingTag(users[response.user], news_articles[i])
              \/ MentionsFavouriteTicker(users[response.user], news_articles[i])
        /\ Len(response.params.tickers) > 0 =>
              HasEntryOf(news_articles[i].tickers, response.params.tickers)
        /\ Len(response.params.tags) > 0 =>
              HasEntryOf(news_articles[i].tags, response.params.tags)}

(* C7: GET /api/news needs top >= 1 and returns at most top articles: the    *)
(* newest by created_at, newest first, among the articles that satisfy the   *)
(* user-interest filter and the tickers filter and the tags filter, as far   *)
(* as each was supplied; one matching element of a filter list is enough.    *)
C7_NewestOfTheMatching ==
    response.op = "read_news" =>
        /\ response.status = HTTP_200_OK <=> response.params.top >= 1
        /\ NewsAnswered =>
              /\ Len(response.body) = Min(response.params.top, Cardinality(SatisfyEveryFilter))
              /\ Range(response.body) \subseteq SatisfyEveryFilter
              /\ \A k, m \in DOMAIN response.body :
                    k < m => news_articles[response.body[k]].created_at
                                 > news_articles[response.body[m]].created_at
              /\ \A i \in SatisfyEveryFilter \ Range(response.body) :
                    \A k \in DOMAIN response.body :
                        news_articles[i].created_at
                            <= news_articles[response.body[k]].created_at

(* C8: when the tickers parameter is given, every returned article has one   *)
(* of the requested tickers as an entry of its comma-separated tickers; when *)
(* the tags parameter is given, one of the requested tags as an entry of its *)
(* comma-separated tags.                                                     *)
C8_RequestedValuesAreEntries ==
    NewsAnswered =>
        \A k \in DOMAIN response.body :
            /\ Len(response.params.tickers) > 0 =>
                  HasEntryOf(news_articles[response.body[k]].tickers, response.params.tickers)
            /\ Len(response.params.tags) > 0 =>
                  HasEntryOf(news_articles[response.body[k]].tags, response.params.tags)


(***************************************************************************)
(* Properties of /register, PUT /me and /login                             *)
(***************************************************************************)

\* No two users share an email, no two a username.
UsersUnique ==
    \A i, j \in DOMAIN users :
        i < j => users[i].email # users[j].email /\ users[i].username # users[j].username

\* This step ends request r.
Finishes(r) == requests[r].op # "none" /\ requests'[r].op = "none"

\* Carried out now, request r would leave two rows with one email or one
\* username: the row it registers, or the row PUT /me would leave, shares a
\* value with another row.
WouldCollide(r) ==
    IF requests[r].op = "register"
    THEN \E j \in DOMAIN users :
             \/ users[j].email = requests[r].user_in.email
             \/ users[j].username = requests[r].user_in.username
    ELSE LET id == requests[r].current_user.id
             row == UpdatedRow(users[id], requests[r])
         IN  \E j \in DOMAIN users \ {id} :
                 users[j].email = row.email \/ users[j].username = row.username

\* A request that would collide ends with 400 and changes no row.
CollisionRefused ==
    \A r \in Requests :
        (Finishes(r) /\ WouldCollide(r)) =>
            response'.status = HTTP_400_BAD_REQUEST /\ users' = users

Identified(identifier) ==
    IF \E u \in DOMAIN users : users[u].email = identifier
    THEN {u \in DOMAIN users : users[u].email = identifier}
    ELSE {u \in DOMAIN users : users[u].username = identifier}

(* C10: /login takes the identifier as an email first and as a username only *)
(* when no email matches; it answers 401 when nobody is found or the         *)
(* password does not verify, 400 when the password verifies and the user is  *)
(* inactive, and otherwise a bearer token for that user, set as well as the  *)
(* HttpOnly cookie access_token.                                             *)
C10_LoginAnswers ==
    response.op = "login" =>
        LET found == Identified(response.params.username)
            verified == {u \in found :
                            users[u].hashed_password = <<"bcrypt", response.params.password>>}
        IN  IF verified = {}
            THEN response.status = HTTP_401_UNAUTHORIZED /\ response.cookie = NoCookie
            ELSE IF \E u \in verified : ~users[u].is_active
            THEN response.status = HTTP_400_BAD_REQUEST /\ response.cookie = NoCookie
            ELSE /\ response.status = HTTP_200_OK
                 /\ response.body.token_type = "bearer"
                 /\ \E u \in verified : response.body.access_token.sub = users[u].id
                 /\ response.cookie.key = "access_token"
                 /\ response.cookie.httponly
                 /\ response.cookie.value = response.body.access_token

\* The identifier is one user's email and another user's username, and the
\* login was answered with a token for the first.
C10_Witness ==
    /\ response.op = "login"
    /\ response.status = HTTP_200_OK
    /\ \E a, b \in DOMAIN users :
          /\ a # b
          /\ users[a].email = response.params.username
          /\ users[b].username = response.params.username
          /\ response.cookie.value.sub = users[a].id
          /\ users[b].hashed_password = <<"bcrypt", response.params.password>>

(***************************************************************************)
(* Properties of the dependencies of app/api/deps.py                       *)
(***************************************************************************)

DepsOps == {"get_my_profile", "get_user_tag_ratings", "update_invest_token", "get_news_by_id"}

\* The token of a Bearer header, if the request has one.
HeaderToken(authorization) ==
    IF authorization # <<>> /\ authorization[1].scheme = "Bearer"
    THEN {authorization[1].param} ELSE {}

\* The token of the request when every cookie access_token counts as present.
TokenCookieFirst(params) ==
    IF params.cookie # <<>> THEN {params.cookie[1]} ELSE HeaderToken(params.authorization)

\* The token of the request when a cookie with the empty value counts as absent.
TokenNonEmptyCookieFirst(params) ==
    IF params.cookie # <<>> /\ params.cookie[1] # EmptyString
    THEN {params.cookie[1]} ELSE HeaderToken(params.authorization)

\* A token is valid when the application issued it and it has not expired.
ValidToken(t) == t \in IssuedTokens /\ t.exp_in > 0

UsersOfToken(t) == {u \in DOMAIN users : users[u].id = t.sub}

\* The answer to a request whose token is the one of the set taken: 401 for
\* no token or an invalid one, 404 for a token of no user, 400 for one of an
\* inactive user, and otherwise the handler body run for the token's user.
AnsweredFor(taken) ==
    IF taken = {} \/ \E t \in taken : ~ValidToken(t)
    THEN response.status = HTTP_401_UNAUTHORIZED /\ handled = <<>>
    ELSE IF \E t \in taken : UsersOfToken(t) = {}
    THEN response.status = HTTP_404_NOT_FOUND /\ handled = <<>>
    ELSE IF \E t \in taken : \E u \in UsersOfToken(t) : ~users[u].is_active
    THEN response.status = HTTP_400_BAD_REQUEST /\ handled = <<>>
    ELSE \E t \in taken : \E u \in UsersOfToken(t) :
             handled = <<[op |-> response.op, current_user |-> u]>>

\* A step that answers without running a handler leaves the tables as they were.
RefusalWritesNothing ==
    Idle /\ response'.op \in DepsOps /\ handled' = <<>>
        => users' = users /\ news_articles' = news_articles

InvestOps ==
    { "top_up_sandbox_account", "get_sandbox_balance", "open_sandbox_account",
      "get_sandbox_accounts", "close_sandbox_account", "post_sandbox_order",
      "get_tradable_shares", "get_sandbox_operations" }

(* C12: an endpoint of /api/invest/sandbox that is called by an authenticated *)
(* user without invest_token (none, or the empty string) answers 400, does    *)
(* not run its handler and makes no call to the brokerage.                    *)
C12_NoTokenNoBrokerageCall ==
    response.op \in InvestOps /\ ~Truthy(users[response.user].invest_token)
        => response.status = HTTP_400_BAD_REQUEST /\ calls = <<>> /\ handled = <<>>

\* Every endpoint of the router has refused a user without invest_token:
\* here the order endpoint, the user's invest_token being NULL.
C12_Witness ==
    /\ response.op = "post_sandbox_order"
    /\ users[response.user].invest_token = NULL
    /\ response.status = HTTP_400_BAD_REQUEST
    /\ calls = <<>>

\* The positions in calls of the orders handed to the brokerage.
Submitted == {k \in DOMAIN calls : calls[k].method = "post_sandbox_order"}

\* The handler of post_sandbox_order has run for the latest request.
OrderHandled == response.op = "post_sandbox_order" /\ handled # <<>>

\* The accounts the request resolves to: the given one, else the first.
ResolvedAccounts(account_id) ==
    IF Truthy(account_id)
    THEN {a \in DOMAIN sandbox.accounts : sandbox.accounts[a].id = account_id}
    ELSE {a \in DOMAIN sandbox.accounts : a = 1}

\* The shares with exactly the requested ticker.
RequestedShares(payload) ==
    {k \in DOMAIN sandbox.instruments : sandbox.instruments[k].ticker = payload.ticker}

InNormalTrading(instrument) ==
    /\ instrument.trading_status = "SECURITY_TRADING_STATUS_NORMAL_TRADING"
    /\ instrument.buy_available_flag
    /\ instrument.sell_available_flag

\* The account covers the order: for a buy its roubles are at least the
\* cost (100 times the cost is compared, 1.05 being 105 / 100), for a sell
\* its balance of the instrument is at least quantity x lot.
Covers(order, payload, account, instrument) ==
    IF payload.direction = "buy"
    THEN IF order.order_type = "ORDER_TYPE_LIMIT"
         THEN /\ payload.price # <<>>
              /\ account.rub * 100 >=
                     payload.price[1] * payload.quantity * instrument.lot * 100
         ELSE /\ instrument.last_price # <<>>
              /\ account.rub * 100 >=
                     instrument.last_price[1] * 105 * payload.quantity * instrument.lot
    ELSE (IF instrument.figi = "F1" THEN account.held ELSE 0) >=
             payload.quantity * instrument.lot

\* The calls of a request, in the order of the checks.
OrderOfCalls ==
    << "get_sandbox_accounts", "shares", "find_instrument", "get_instrument_by",
       "get_sandbox_positions", "get_last_prices", "post_sandbox_order" >>

(* C13: post_sandbox_order hands an order to the brokerage only as its last  *)
(* call, after the calls of the checks in their order, and only when an      *)
(* account is resolved (the given account_id or the first account), a share  *)
(* with exactly the requested ticker exists, that instrument is in normal    *)
(* trading with buying and selling available, and the account covers the     *)
(* order (roubles >= price x quantity x lot for a limit buy, >= last price x *)
(* 1.05 x quantity x lot for a market buy, held balance >= quantity x lot    *)
(* for a sell); when no call raised, a failed check is answered 404 (no      *)
(* account, no such share) or 400, and then no order has been handed over.   *)
C13_OrderOnlyAfterChecks ==
    OrderHandled =>
        LET payload == response.params.payload
            accounts == ResolvedAccounts(response.params.account_id)
            shares == RequestedShares(payload)
        IN  /\ IsSubsequence([k \in DOMAIN calls |-> calls[k].method], OrderOfCalls)
            /\ \A k \in Submitted :
                  /\ k = Len(calls)
                  /\ \E j \in 1..(k - 1) : calls[j].method = "get_sandbox_positions"
                  /\ \E a \in accounts, s \in shares :
                        /\ InNormalTrading(sandbox.instruments[s])
                        /\ Covers(calls[k].args, payload, sandbox.accounts[a],
                                  sandbox.instruments[s])
            /\ response.status \in {HTTP_404_NOT_FOUND, HTTP_400_BAD_REQUEST}
                  => Submitted = {}
            /\ response.status # 500 =>
                  IF ~Truthy(response.params.account_id) /\ accounts = {}
                      THEN response.status = HTTP_404_NOT_FOUND
                  ELSE IF shares = {}
                      THEN response.status = HTTP_404_NOT_FOUND
                  ELSE IF \E s \in shares : ~InNormalTrading(sandbox.instruments[s])
                      THEN response.status = HTTP_400_BAD_REQUEST
                  ELSE \/ response.status = HTTP_200_OK /\ Submitted # {}
                       \/ response.status = HTTP_400_BAD_REQUEST /\ Submitted = {}

\* The float of the request as a Quotation, exactly.
ExactQuotation(value) == [units |-> value \div 10, nano |-> (value % 10) * 100000000]

(* C14: an order post_sandbox_order hands to the brokerage is a limit order  *)
(* at the price of the request whenever the request has a price, and a       *)
(* market order without price only when the request has no price.            *)
C14_LimitWheneverPriceGiven ==
    OrderHandled =>
        \A k \in Submitted :
            LET order == calls[k].args
                price == response.params.payload.price
            IN  IF price # <<>>
                THEN /\ order.order_type = "ORDER_TYPE_LIMIT"
                     /\ order.price = <<ExactQuotation(price[1])>>
                ELSE /\ order.order_type = "ORDER_TYPE_MARKET"
                     /\ order.price = <<>>

(***************************************************************************)
(* The single pass of NoDuplicates.py                                      *)
(***************************************************************************)

\* The articles that turn i marks when it is not skipped: the non-self
\* neighbours returned for i whose similarity is strictly above the threshold.
SimilarNeighbours(i) ==
    {j \in NonSelfNeighbours(i) : cos_sim(embeddings[i], embeddings[j]) > threshold}

\* The marked set after the turns 1..i: a turn whose article is already
\* marked adds nothing, any other turn adds its similar neighbours.
RECURSIVE MarkedAfter(_)
MarkedAfter(i) ==
    IF i = 0 THEN {}
    ELSE LET before == MarkedAfter(i - 1)
         IN  IF i \in before THEN before ELSE before \cup SimilarNeighbours(i)

\* A turn never takes an index out of the set, and the turn of a marked
\* article leaves the set as it is.
MarkedOnlyGrows ==
    /\ duplicate_indices \subseteq duplicate_indices'
    /\ (dedup_pc = "loop" /\ dedup_i \in duplicate_indices)
          => duplicate_indices' = duplicate_indices

(* C15: the pass removes article j if and only if some article i that was   *)
(* not marked when its turn came (turns in ascending order) has j among its  *)
(* non-self returned neighbours with similarity strictly above threshold: a  *)
(* marked article's turn marks nothing, a similarity equal to threshold      *)
(* marks nothing, and the marked set only grows during the pass.             *)
C15_RemovedIffSimilarNeighbour ==
    /\ [](dedup_pc = "loop" => duplicate_indices = MarkedAfter(dedup_i - 1))
    /\ [](dedup_pc = "done" /\ Len(articles) > 0 =>
            /\ duplicate_indices = MarkedAfter(Len(articles))
            /\ cleaned_articles = CleanedArticles(articles, MarkedAfter(Len(articles))))
    /\ [][MarkedOnlyGrows]_vars

(***************************************************************************)
(* The preferences of app/api/routes/recommendations.py                    *)
(***************************************************************************)

\* The handler of the latest request has built its prompt.
PromptBuilt ==
    /\ response.op = "get_recommendation_for_news"
    /\ calls # <<>>
    /\ calls[Len(calls)].method = "chat/completions"

\* The names of the tags whose score of the user is in scores.
TagsScored(user, scores) == {TAG_MAP[f] : f \in {g \in TagFields : user[g] \in scores}}

(* C16: the recommendation endpoint puts each of the fourteen tags in        *)
(* exactly one of loved (score >= 3), neutral (-1 <= score <= 2) and unloved *)
(* (score < -1), and the tags the news filter takes as interesting (score    *)
(* >= -1) are exactly the loved and the neutral ones.                        *)
C16_TagsInExactlyOneList ==
    PromptBuilt =>
        LET user    == users[response.user]
            context == calls[Len(calls)].args.user_context
            loved   == context.loved_tags
            neutral == context.neutral_tags
            unloved == context.unloved_tags
            bound   == MaxPreference + MaxScore + 1
        IN  /\ Cardinality(TagNames) = 14
            /\ \A name \in TagNames : Occurrences(loved \o neutral \o unloved, name) = 1
            /\ Range(loved) = TagsScored(user, 3..bound)
            /\ Range(neutral) = TagsScored(user, (0 - 1)..2)
            /\ Range(unloved) = TagsScored(user, (0 - bound)..(0 - 2))
            /\ user_interested_tags(user) = Range(loved) \cup Range(neutral)

\* A prompt for a user with a loved tag (score 3), an unloved one (score -2)
\* and twelve neutral ones has been built and answered.
C16_Witness ==
    /\ PromptBuilt
    /\ response.status = HTTP_200_OK
    /\ users[response.user].tag_finance = 3
    /\ users[response.user].tag_tech = 0 - 2
    /\ calls[Len(calls)].args.user_context.loved_tags = <<TAG_MAP.tag_finance>>
    /\ calls[Len(calls)].args.user_context.unloved_tags = <<TAG_MAP.tag_tech>>
    /\ Len(calls[Len(calls)].args.user_context.neutral_tags) = 12

(***************************************************************************)
(* Failures inside run_all_parsers_and_process                             *)
(***************************************************************************)

\* s is the beginning of t.
IsPrefix(s, t) == Len(s) <= Len(t) /\ \A k \in DOMAIN s : s[k] = t[k]

\* Whatever a parser does, the items collected so far are kept, the next
\* parser is called, and after the last one the run goes on to the ML step
\* when it has an item and returns when it has none.
ParserFailureGoesOn ==
    pipe_pc \in {"parser", "items"} =>
        /\ parser_idx < Len(PARSERS_REGISTRY) =>
              /\ pipe_pc' \in {"parser", "items"}
              /\ parser_idx' \in {parser_idx, parser_idx + 1}
        /\ pipe_pc' \in {"parser", "items"} => IsPrefix(unique_news, unique_news')
        /\ pipe_pc' \notin {"parser", "items"} =>
              IF unique_news = <<>>
              THEN pipe_pc' = "idle"
              ELSE pipe_pc' = "dedup" /\ unique_news' = unique_news

\* The ML step is always followed by the LLM loop, and when the call raised,
\* the loop goes over every item that passed the raw duplicate check.
DedupFailureGoesOn ==
    pipe_pc = "dedup" =>
        /\ pipe_pc' = "llm"
        /\ llm_idx' = 1
        /\ ~ml_returned'.returned => Range(deduplicated_news') = passed_check

\* Whatever happens to one item of the LLM loop, the loop goes on to the next.
LlmFailureGoesOn ==
    (pipe_pc = "llm" /\ llm_idx <= Len(deduplicated_news)) =>
        /\ pipe_pc' = "llm"
        /\ llm_idx' = llm_idx + 1
        /\ deduplicated_news' = deduplicated_news

(* C17: a failure inside one stage does not stop the run: after a parser     *)
(* that raised the remaining parsers are called and the collected items are  *)
(* processed; after a raising ML deduplication the run goes on with every    *)
(* item that passed the raw duplicate check; after an item of the LLM loop   *)
(* failed the following items are processed; and neither the ML step nor the *)
(* LLM is reached when no item passed the raw duplicate check.               *)
C17_FailureDoesNotStopRun ==
    /\ [](pipe_pc \in {"dedup", "llm"} => passed_check # {})
    /\ [][ParserFailureGoesOn /\ DedupFailureGoesOn /\ LlmFailureGoesOn]_vars

=============================================================================
